---- MODULE Spec2Model ----
(***************************************************************************)
(* Peer registry, name arbiter and connection lifecycle tracker of the     *)
(* agents-p2p-network node (internal/p2p Host, internal/agent Agent).      *)
(*                                                                         *)
(* Every goroutine that enters the node (a transport notification, an      *)
(* inbound stream handler, an HTTP request handler) is a task.  A task     *)
(* runs one operation at a time, step by step; the steps of different      *)
(* tasks interleave freely, and the only synchronisation is the            *)
(* sync.RWMutex peersMu of the Host.                                       *)
(***************************************************************************)
EXTENDS Integers, Sequences, FiniteSets, TLC

\* ---------------------------------------------------------------- bounds
NumPeers == 2
NumNames == 2
NumTasks == 2
MaxOps == 4
MaxStreams == 1

\* ------------------------------------------------------ program constants
\* existingPeer.String()[:12]
DisplayLen == 12

\* ------------------------------------------------------------ identities
\* peer.ID values; NoPeer is the zero value "" of peer.ID.
PeerIDs == 1..NumPeers
NoPeer == 0
\* agent names carried by register payloads
Names == 1..NumNames
NoName == 0
Tasks == 1..NumTasks
NoTask == 0

\* peer.ID.String(): an injective text form, longer than DisplayLen.  Peers
\* p and p + 2 differ only in the character after position DisplayLen.
PeerString(p) ==
    [i \in 1..(DisplayLen + 1) |->
        IF i = DisplayLen THEN p % 2
        ELSE IF i = DisplayLen + 1 THEN p \div 2
        ELSE 0]

\* s[:12]
Truncate(s) == SubSeq(s, 1, DisplayLen)

VARIABLES
    peers,          \* Host.peers: peer.ID -> *PeerInfo (an address of heap)
    heap,           \* the PeerInfo objects, by address
    agentNames,     \* Host.agentNames: name -> peer.ID
    agentRegistry,  \* Agent.agentRegistry: peer id -> AgentRecord
    peersMu,        \* Host.peersMu: [writer, readers]
    pc,             \* per task: the step it is at
    frame,          \* per task: arguments, locals and results
    ops,            \* operations started so far
    msgHandler,     \* Host.msgHandler: "nil" until SetMessageHandler
    inbound,        \* per inbound stream: the stream and its handleStream call
    bcast,          \* the Broadcast call of the messaging view
    send,           \* per SendMessage call: its position, arguments, result
    stream,         \* per SendMessage call: the stream it opened
    ctxDone,        \* the contexts that are cancelled or past their deadline
    http,           \* the HTTP exchange with the API server of the node
    conns           \* per peer: the open connections of the libp2p network

\* the registry view of the node
coreVars == <<peers, heap, agentNames, agentRegistry, peersMu, pc, frame, ops>>
\* the messaging view of the node
inVars == <<msgHandler, inbound>>
outVars == <<bcast, send, stream, ctxDone>>
apiVars == <<http>>
\* the network under the node
swarmVars == <<conns>>
netVars == <<inVars, outVars, apiVars, swarmVars>>
vars == <<coreVars, netVars>>

\* ---------------------------------------------------------------- values
NoError == [kind |-> "nil"]
\* fmt.Errorf("agent name '%s' is already taken by peer %s", name, shown)
NameTakenError(name, shown) == [kind |-> "name_taken", name |-> name, peer |-> shown]

EmptyFrame ==
    [peer |-> NoPeer, name |-> NoName, err |-> NoError,
     ptrs |-> {}, agents |-> {}, snap |-> {}]

\* the payload broadcastRegistration builds for the agent `from` named `name`;
\* its endpoint is the sender's own
RegisterPayload(from, name) ==
    [AgentName |-> name, Endpoint |-> from, Models |-> <<"gpt-4", "gpt-3.5-turbo">>]

\* map[k] = v
MapSet(m, k, v) == [x \in DOMAIN m \cup {k} |-> IF x = k THEN v ELSE m[x]]

\* ------------------------------------------------------ messages and codec
MessageTypeChat == "chat"
MessageTypeComplete == "complete"
MessageTypeRegister == "register"
MessageTypePing == "ping"
MessageTypePong == "pong"
MessageTypeError == "error"
MessageTypeAnnounce == "announce"
DefinedTypes ==
    {MessageTypeChat, MessageTypeComplete, MessageTypeRegister, MessageTypePing,
     MessageTypePong, MessageTypeError, MessageTypeAnnounce}
\* a type string no constant of the node defines
UnknownType == "gossip"

\* the identity of the node itself, h.host.ID()
LocalID == NumPeers + 1
\* request_id values; NoRequestID is the empty string
RequestIDs == 1..NumTasks
NoRequestID == 0

\* JSON values: null, a string (a text s, or the text form of the number n of
\* a peer, name or request id), an object with members m, an array
JNull == [s |-> "", m |-> <<>>, t |-> "null", n |-> 0]
JString(s, n) == [s |-> s, m |-> <<>>, t |-> "string", n |-> n]
JObject(m) == [s |-> "", m |-> m, t |-> "object", n |-> 0]
JArray == [s |-> "", m |-> <<>>, t |-> "array", n |-> 0]

\* byte strings: no bytes at all, bytes that are not JSON, the text of a value
NoBytes == [kind |-> "empty", value |-> JNull]
Garbage == [kind |-> "garbage", value |-> JNull]
Text(v) == [kind |-> "json", value |-> v]

\* json.RawMessage: the nil slice, or the bytes of a JSON value
RawNil == [json |-> JNull, present |-> FALSE]
Raw(v) == [json |-> v, present |-> TRUE]

\* the zero value of Message
ZeroMessage ==
    [Type |-> "", From |-> NoPeer, To |-> NoPeer, RequestID |-> NoRequestID,
     Payload |-> RawNil]
\* a *Message that is nil
NilMessage == [ZeroMessage EXCEPT !.Type = "<nil>"]

\* errors other than the name conflict
Error(kind) == [kind |-> kind]

\* json.Marshal(msg): "to" and "request_id" are omitted when empty, "payload"
\* is always written, and a nil RawMessage is written as null
MarshalKeys(msg) ==
    {"type", "from", "payload"}
        \cup (IF msg.To # NoPeer THEN {"to"} ELSE {})
        \cup (IF msg.RequestID # NoRequestID THEN {"request_id"} ELSE {})
MarshalPayload(raw) == IF raw.present THEN raw.json ELSE JNull
Marshal(msg) ==
    Text(JObject([k \in MarshalKeys(msg) |->
        CASE k = "type" -> JString(msg.Type, 0)
          [] k = "from" -> JString("peer", msg.From)
          [] k = "to" -> JString("peer", msg.To)
          [] k = "request_id" -> JString("id", msg.RequestID)
          [] k = "payload" -> MarshalPayload(msg.Payload)]))

\* json.Unmarshal(data, &msg) into a zero Message: a syntax error for bytes
\* that are not JSON, a type error for a value that is neither null nor an
\* object; null leaves msg as it is; an object sets the fields whose members
\* are present and not null, and RawMessage takes the bytes of its member
\* whatever they are, null included
UnmarshalPayload(m) == IF "payload" \in DOMAIN m THEN Raw(m["payload"]) ELSE RawNil
UnmarshalString(m, k) == IF k \in DOMAIN m /\ m[k].t = "string" THEN m[k].s ELSE ""
UnmarshalNumber(m, k) == IF k \in DOMAIN m /\ m[k].t = "string" THEN m[k].n ELSE 0
\* a string field whose member is neither a string nor null
UnmarshalTypeError(m) ==
    \E k \in DOMAIN m \cap {"type", "from", "to", "request_id"} :
        m[k].t \notin {"string", "null"}
\* the fields of a Message decoded from the members m of an object
UnmarshalFields(m) ==
    [Type |-> UnmarshalString(m, "type"),
     From |-> UnmarshalNumber(m, "from"),
     To |-> UnmarshalNumber(m, "to"),
     RequestID |-> UnmarshalNumber(m, "request_id"),
     Payload |-> UnmarshalPayload(m)]

\* a decoding whose error nobody looks at: the message is what the decoder
\* left in it
UnmarshalErrorIgnored(data) ==
    IF data.kind = "json" /\ data.value.t = "object"
          /\ ~UnmarshalTypeError(data.value.m)
    THEN [err |-> NoError, msg |-> UnmarshalFields(data.value.m)]
    ELSE [err |-> NoError, msg |-> ZeroMessage]

\* json.Unmarshal(data, &msg): the error and the message
Unmarshal(data) ==
    IF data.kind # "json"
    THEN [err |-> Error("syntax"), msg |-> ZeroMessage]
    ELSE IF data.value.t = "null"
    THEN [err |-> NoError, msg |-> ZeroMessage]
    ELSE IF data.value.t # "object" \/ UnmarshalTypeError(data.value.m)
    THEN [err |-> Error("type"), msg |-> ZeroMessage]
    ELSE [err |-> NoError, msg |-> UnmarshalFields(data.value.m)]

\* ------------------------------------------------- streams and their tasks
\* the goroutines that run SendMessage
SendIDs == 1..NumPeers
\* inbound streams, each handled by its own handleStream goroutine
StreamIDs == 1..MaxStreams
\* contexts: the one Broadcast was called with, and the one of the HTTP
\* request behind the directed send that runs in goroutine i
BroadcastCtx == 0
Contexts == BroadcastCtx..NumPeers

\* a SendMessage call that has not started
IdleSend ==
    [pc |-> "idle", err |-> NoError, msg |-> NilMessage, pid |-> NoPeer,
     ctx |-> BroadcastCtx, resp |-> NilMessage, opens |-> 0]
\* the stream of a SendMessage call that has opened none
NoStream ==
    [resp |-> NoBytes, state |-> "none", req |-> <<>>, wclosed |-> FALSE,
     eof |-> FALSE, closed |-> FALSE]
\* no Broadcast call yet
IdleBroadcast ==
    [pc |-> "idle", err |-> NoError, snap |-> {}, msg |-> NilMessage,
     rest |-> {}]
\* no inbound stream yet
IdleInbound ==
    [pc |-> "idle", err |-> NoError, from |-> NoPeer, msg |-> NilMessage,
     data |-> NoBytes, resp |-> NilMessage, wclosed |-> FALSE, closed |-> FALSE,
     sent |-> NilMessage, calls |-> 0, written |-> <<>>,
     got |-> [err |-> NoError, msg |-> NilMessage]]

\* no HTTP request yet: nothing is routed, no handler has run, no status is
\* written
NoRequest ==
    [pc |-> "idle", err |-> "", method |-> "", path |-> "", auth |-> <<>>,
     chain |-> <<>>, ran |-> <<>>, status |-> 0, by |-> ""]

\* the network has no connection open
NoConnections == [p \in PeerIDs |-> 0]

\* no stream in either direction, every transport healthy
NoTraffic ==
    /\ msgHandler = "nil"
    /\ http = NoRequest
    /\ conns = NoConnections
    /\ inbound = [s \in StreamIDs |-> IdleInbound]
    /\ bcast = IdleBroadcast
    /\ send = [i \in SendIDs |-> IdleSend]
    /\ stream = [i \in SendIDs |-> NoStream]
    /\ ctxDone = {}

\* ------------------------------------------------------------------ Init
\* the registry as NewHost and New leave it, and no task
NewHost ==
    /\ peers = <<>>
    /\ heap = <<>>
    /\ agentNames = <<>>
    /\ agentRegistry = <<>>
    /\ peersMu = [writer |-> NoTask, readers |-> {}]
    /\ pc = [t \in Tasks |-> "idle"]
    /\ frame = [t \in Tasks |-> EmptyFrame]
    /\ ops = 0

\* the registry view: the messaging code is left out
Init ==
    /\ NewHost
    /\ msgHandler = "nil"
    /\ inbound = <<>>
    /\ bcast = <<>>
    /\ send = <<>>
    /\ stream = <<>>
    /\ ctxDone = {}
    /\ http = <<>>
    /\ conns = <<>>

\* ------------------------------------------------------------ sync.RWMutex
\* Lock() that excludes nobody
LockExcludesNobody == TRUE

\* Lock() succeeds when no writer and no reader holds the mutex
CanLock == peersMu.writer = NoTask /\ peersMu.readers = {}
\* RLock() succeeds when no writer holds the mutex
CanRLock == peersMu.writer = NoTask
Lock(t) == [peersMu EXCEPT !.writer = t]
Unlock(t) == [peersMu EXCEPT !.writer = NoTask]
RLock(t) == [peersMu EXCEPT !.readers = @ \cup {t}]
\* a read lock that is not released
RUnlockLeftOut(t) == peersMu
RUnlock(t) == [peersMu EXCEPT !.readers = @ \ {t}]

\* one more operation enters the node
CountOp == ops < MaxOps /\ ops' = ops + 1

\* A new goroutine takes the lowest free task slot and runs up to the return
\* of its first Lock()/RLock(), with its arguments in frame f.  A goroutine
\* still blocked in Lock() has touched nothing, so it is not yet a task.
Begin(t, first, f) ==
    /\ pc[t] = "idle"
    /\ \A u \in Tasks : u < t => pc[u] # "idle"
    /\ CountOp
    /\ pc' = [pc EXCEPT ![t] = first]
    /\ frame' = [frame EXCEPT ![t] = f]

\* task t moves on to its step `next`
Goto(t, next) == pc' = [pc EXCEPT ![t] = next]

\* the goroutine ends and its slot is free again
End(t) ==
    /\ pc' = [pc EXCEPT ![t] = "idle"]
    /\ frame' = [frame EXCEPT ![t] = EmptyFrame]

\* ------------------------------------------- connection lifecycle tracker
\* &PeerInfo{ID: peerID, Connected: true}
NewPeerInfo(peerID) ==
    [ID |-> peerID, Name |-> "", Addrs |-> <<>>, Connected |-> TRUE]

\* the Host fields guarded by peersMu, as one value
Host == [peers |-> peers, heap |-> heap, agentNames |-> agentNames]

\* onPeerConnected that stores a new PeerInfo on every notification
onPeerConnectedAlwaysNew(h, peerID) ==
    [h EXCEPT !.peers = MapSet(h.peers, peerID, Len(h.heap) + 1),
              !.heap = Append(h.heap, NewPeerInfo(peerID))]

\* the body of onPeerConnected, on the Host fields h
onPeerConnected(h, peerID) ==
    IF peerID \notin DOMAIN h.peers
    THEN [h EXCEPT !.peers = MapSet(h.peers, peerID, Len(h.heap) + 1),
                   !.heap = Append(h.heap, NewPeerInfo(peerID))]
    ELSE [h EXCEPT !.heap[h.peers[peerID]].Connected = TRUE]

\* NotifyBundle.ConnectedF: p2pHost.onPeerConnected(c.RemotePeer()).  The
\* whole call is one critical section of the write lock.
ConnectedF(p) ==
    /\ CanLock
    /\ CountOp
    /\ LET h == onPeerConnected(Host, p)
       IN /\ peers' = h.peers
          /\ heap' = h.heap
          /\ agentNames' = h.agentNames
    /\ UNCHANGED <<agentRegistry, peersMu, pc, frame>>
    /\ UNCHANGED netVars

\* onPeerDisconnected that also releases the names the peer owns
onPeerDisconnectedReleasingNames(h, peerID) ==
    [h EXCEPT !.heap = IF peerID \in DOMAIN h.peers
                       THEN [h.heap EXCEPT ![h.peers[peerID]].Connected = FALSE]
                       ELSE h.heap,
              !.agentNames = [n \in {m \in DOMAIN h.agentNames :
                                        h.agentNames[m] # peerID} |-> h.agentNames[n]]]

\* onPeerDisconnected that deletes the peer's entry
onPeerDisconnectedDeleting(h, peerID) ==
    [h EXCEPT !.peers = [id \in DOMAIN h.peers \ {peerID} |-> h.peers[id]]]

\* an onPeerDisconnected that leaves the peer connected while the network
\* has another connection to it
onPeerDisconnectedLastOnly(h, peerID) ==
    IF conns[peerID] > 1 THEN h
    ELSE IF peerID \in DOMAIN h.peers
         THEN [h EXCEPT !.heap[h.peers[peerID]].Connected = FALSE]
         ELSE h

\* the body of onPeerDisconnected, on the Host fields h
onPeerDisconnected(h, peerID) ==
    IF peerID \in DOMAIN h.peers
    THEN [h EXCEPT !.heap[h.peers[peerID]].Connected = FALSE]
    ELSE h

\* NotifyBundle.DisconnectedF: p2pHost.onPeerDisconnected(c.RemotePeer())
DisconnectedF(p) ==
    /\ CanLock
    /\ CountOp
    /\ LET h == onPeerDisconnected(Host, p)
       IN /\ peers' = h.peers
          /\ heap' = h.heap
          /\ agentNames' = h.agentNames
    /\ UNCHANGED <<agentRegistry, peersMu, pc, frame>>
    /\ UNCHANGED netVars

\* ------------------------------------------------------------ name arbiter
\* RegisterAgentName without the existence check
NoConflictCheck(names, name, peerID) == FALSE

\* RegisterAgentName that rejects every claimed name, the owner's too
OwnerAlsoRejected(names, name, peerID) == name \in DOMAIN names

\* if existingPeer, exists := h.agentNames[name]; exists && existingPeer != peerID
NameConflict(names, name, peerID) ==
    name \in DOMAIN names /\ names[name] # peerID

\* a conflict error that shows the caller instead of the owner
ConflictErrorShowsCaller(names, name, peerID) ==
    NameTakenError(name, Truncate(PeerString(peerID)))

\* the error RegisterAgentName returns on a conflict
ConflictError(names, name, peerID) ==
    NameTakenError(name, Truncate(PeerString(names[name])))

\* Names are interchangeable: the first name ever advertised is called 1,
\* the next new one 2, and so on.
NameInUse(n) == n \in DOMAIN agentNames \/ \E t \in Tasks : frame[t].name = n
NextName(n) == n = 1 \/ NameInUse(n - 1)

\* handleStream -> handleP2PMessage -> handleRegister(from, msg): an inbound
\* register message of peer `from` whose payload advertises `name` reaches
\* RegisterAgentName(payload.AgentName, from), which takes h.peersMu.Lock()
\* and makes its check; on a conflict the call returns the error and the
\* deferred Unlock() runs
RegisterAgentName_Check(t, from, name) ==
    /\ CanLock
    /\ NextName(name)
    /\ IF NameConflict(agentNames, name, from)
       THEN /\ Begin(t, "handleRegister_Reject",
                     [EmptyFrame EXCEPT !.peer = from, !.name = name,
                                        !.err = ConflictError(agentNames, name, from)])
            /\ UNCHANGED peersMu
       ELSE /\ Begin(t, "RegisterAgentName_Set",
                     [EmptyFrame EXCEPT !.peer = from, !.name = name])
            /\ peersMu' = Lock(t)
    /\ UNCHANGED <<peers, heap, agentNames, agentRegistry>>
    /\ UNCHANGED netVars

\* a RegisterAgentName that returns nil without storing the claim
ClaimNameSkipped(names, name, peerID) == names

\* h.agentNames[name] = peerID
ClaimName(names, name, peerID) == MapSet(names, name, peerID)

\* the assignment of RegisterAgentName, return nil and the deferred Unlock()
RegisterAgentName_Set(t) ==
    /\ pc[t] = "RegisterAgentName_Set"
    /\ agentNames' = ClaimName(agentNames, frame[t].name, frame[t].peer)
    /\ peersMu' = Unlock(t)
    /\ Goto(t, "handleRegister_Record")
    /\ UNCHANGED <<peers, heap, agentRegistry, frame, ops>>
    /\ UNCHANGED netVars

\* RegisterAgentName returned an error: handleRegister logs it and returns the
\* error reply, which handleStream writes before the stream closes; nothing is
\* recorded
handleRegister_Reject(t) ==
    /\ pc[t] = "handleRegister_Reject"
    /\ End(t)
    /\ UNCHANGED <<peers, heap, agentNames, agentRegistry, peersMu, ops>>
    /\ UNCHANGED netVars

\* &AgentRecord{PeerID: from, Name: payload.AgentName, ...}
NewAgentRecord(from, payload) ==
    [PeerID |-> from, Name |-> payload.AgentName,
     Endpoint |-> payload.Endpoint, Models |-> payload.Models]

\* a.agentRegistry[from.String()] = &AgentRecord{...}, outside any lock; the
\* pong reply is returned and written, and the stream closes
handleRegister_Record(t) ==
    /\ pc[t] = "handleRegister_Record"
    /\ agentRegistry' =
          MapSet(agentRegistry, frame[t].peer,
                 NewAgentRecord(frame[t].peer,
                                RegisterPayload(frame[t].peer, frame[t].name)))
    /\ End(t)
    /\ UNCHANGED <<peers, heap, agentNames, peersMu, ops>>
    /\ UNCHANGED netVars

\* IsNameTaken(name): the pair a call returns when it reads `names`
IsNameTaken(names, name) ==
    IF name \in DOMAIN names
    THEN [taken |-> TRUE, owner |-> names[name]]
    ELSE [taken |-> FALSE, owner |-> NoPeer]

\* ------------------------------------------------------------ peer reads
\* GetPeers: h.peersMu.RLock()
GetPeers_RLock(t) ==
    /\ CanRLock
    /\ Begin(t, "GetPeers_Copy", EmptyFrame)
    /\ peersMu' = RLock(t)
    /\ UNCHANGED <<peers, heap, agentNames, agentRegistry>>
    /\ UNCHANGED netVars

\* the []*PeerInfo GetPeers returns: the pointers held by the map
GetPeers(ps) == {ps[id] : id \in DOMAIN ps}

\* for _, p := range h.peers { peers = append(peers, p) }; RUnlock; return
GetPeers_Copy(t) ==
    /\ pc[t] = "GetPeers_Copy"
    /\ frame' = [frame EXCEPT ![t].ptrs = GetPeers(peers)]
    /\ peersMu' = RUnlock(t)
    /\ Goto(t, "HandleListAgents_Loop")
    /\ UNCHANGED <<peers, heap, agentNames, agentRegistry, ops>>
    /\ UNCHANGED netVars

\* api.AgentInfo built by one iteration of HandleListAgents from pointer p
AgentInfo(hp, registry, p) ==
    LET id == hp[p].ID
    IN [ID |-> id, Connected |-> hp[p].Connected,
        Name |-> IF id \in DOMAIN registry THEN registry[id].Name ELSE NoName]

\* HandleListAgents: one iteration of `for _, p := range peers`, reading
\* through p and from agentRegistry without any lock; the slice is in map
\* iteration order, which is arbitrary
HandleListAgents_Loop(t) ==
    /\ pc[t] = "HandleListAgents_Loop"
    /\ \E p \in frame[t].ptrs :
          frame' = [frame EXCEPT ![t].ptrs = @ \ {p},
                                 ![t].agents = @ \cup {AgentInfo(heap, agentRegistry, p)}]
    /\ UNCHANGED <<peers, heap, agentNames, agentRegistry, peersMu, pc, ops>>
    /\ UNCHANGED netVars

\* HandleListAgents: return &api.AgentsResponse{Object: "list", Data: agents}
HandleListAgents_Return(t) ==
    /\ pc[t] = "HandleListAgents_Loop"
    /\ frame[t].ptrs = {}
    /\ End(t)
    /\ UNCHANGED <<peers, heap, agentNames, agentRegistry, peersMu, ops>>
    /\ UNCHANGED netVars

\* -------------------------------------------------------- broadcast fan-out
\* Broadcast: h.peersMu.RLock()
Broadcast_RLock(t) ==
    /\ CanRLock
    /\ Begin(t, "Broadcast_Snapshot", EmptyFrame)
    /\ peersMu' = RLock(t)
    /\ UNCHANGED <<peers, heap, agentNames, agentRegistry>>
    /\ UNCHANGED netVars

\* a snapshot that ignores the Connected flag
AllKnownPeers(ps, hp) == DOMAIN ps

\* for id, info := range h.peers { if info.Connected { peers = append(peers, id) } }
ConnectedPeers(ps, hp) == {id \in DOMAIN ps : hp[ps[id]].Connected}

Broadcast_Snapshot(t) ==
    /\ pc[t] = "Broadcast_Snapshot"
    /\ frame' = [frame EXCEPT ![t].snap = ConnectedPeers(peers, heap)]
    /\ peersMu' = RUnlock(t)
    /\ Goto(t, "Broadcast_Dispatch")
    /\ UNCHANGED <<peers, heap, agentNames, agentRegistry, ops>>
    /\ UNCHANGED netVars

\* for _, peerID := range peers { go func(pid) { h.SendMessage(...) }(peerID) };
\* return nil
Broadcast_Dispatch(t) ==
    /\ pc[t] = "Broadcast_Dispatch"
    /\ End(t)
    /\ UNCHANGED <<peers, heap, agentNames, agentRegistry, peersMu, ops>>
    /\ UNCHANGED netVars

Next ==
    \/ \E p \in PeerIDs : ConnectedF(p)
    \/ \E p \in PeerIDs : DisconnectedF(p)
    \/ \E t \in Tasks, p \in PeerIDs, n \in Names : RegisterAgentName_Check(t, p, n)
    \/ \E t \in Tasks : RegisterAgentName_Set(t)
    \/ \E t \in Tasks : handleRegister_Reject(t)
    \/ \E t \in Tasks : handleRegister_Record(t)
    \/ \E t \in Tasks : GetPeers_RLock(t)
    \/ \E t \in Tasks : GetPeers_Copy(t)
    \/ \E t \in Tasks : HandleListAgents_Loop(t)
    \/ \E t \in Tasks : HandleListAgents_Return(t)
    \/ \E t \in Tasks : Broadcast_RLock(t)
    \/ \E t \in Tasks : Broadcast_Snapshot(t)
    \/ \E t \in Tasks : Broadcast_Dispatch(t)

Spec == Init /\ [][Next]_vars

\* ============================================================ the lock view
\* The registry with every user of peersMu as a task, a notification
\* included: the goroutine of a notification that has called Lock() waits, as
\* a task, until the mutex is free.

\* NotifyBundle.ConnectedF: p2pHost.onPeerConnected(c.RemotePeer()) is called
\* and reaches h.peersMu.Lock()
ConnectedF_Call(t, p) ==
    /\ Begin(t, "onPeerConnected_Lock", [EmptyFrame EXCEPT !.peer = p])
    /\ UNCHANGED <<peers, heap, agentNames, agentRegistry, peersMu>>
    /\ UNCHANGED netVars

\* onPeerConnected from the return of Lock() to the deferred Unlock()
onPeerConnected_Apply(t) ==
    /\ pc[t] = "onPeerConnected_Lock"
    /\ CanLock
    /\ LET h == onPeerConnected(Host, frame[t].peer)
       IN /\ peers' = h.peers
          /\ heap' = h.heap
          /\ agentNames' = h.agentNames
    /\ End(t)
    /\ UNCHANGED <<agentRegistry, peersMu, ops>>
    /\ UNCHANGED netVars

\* NotifyBundle.DisconnectedF: p2pHost.onPeerDisconnected(c.RemotePeer()) is
\* called and reaches h.peersMu.Lock()
DisconnectedF_Call(t, p) ==
    /\ Begin(t, "onPeerDisconnected_Lock", [EmptyFrame EXCEPT !.peer = p])
    /\ UNCHANGED <<peers, heap, agentNames, agentRegistry, peersMu>>
    /\ UNCHANGED netVars

\* onPeerDisconnected from the return of Lock() to the deferred Unlock()
onPeerDisconnected_Apply(t) ==
    /\ pc[t] = "onPeerDisconnected_Lock"
    /\ CanLock
    /\ LET h == onPeerDisconnected(Host, frame[t].peer)
       IN /\ peers' = h.peers
          /\ heap' = h.heap
          /\ agentNames' = h.agentNames
    /\ End(t)
    /\ UNCHANGED <<agentRegistry, peersMu, ops>>
    /\ UNCHANGED netVars

\* IsNameTaken(name): h.peersMu.RLock()
IsNameTaken_RLock(t, name) ==
    /\ CanRLock
    /\ NextName(name)
    /\ Begin(t, "IsNameTaken_Read", [EmptyFrame EXCEPT !.name = name])
    /\ peersMu' = RLock(t)
    /\ UNCHANGED <<peers, heap, agentNames, agentRegistry>>
    /\ UNCHANGED netVars

\* IsNameTaken: the lookup in h.agentNames, the return and the deferred RUnlock()
IsNameTaken_Read(t) ==
    /\ pc[t] = "IsNameTaken_Read"
    /\ frame' = [frame EXCEPT ![t].peer = IsNameTaken(agentNames, frame[t].name).owner]
    /\ peersMu' = RUnlock(t)
    /\ Goto(t, "IsNameTaken_Return")
    /\ UNCHANGED <<peers, heap, agentNames, agentRegistry, ops>>
    /\ UNCHANGED netVars

\* the caller of IsNameTaken has its answer
IsNameTaken_Return(t) ==
    /\ pc[t] = "IsNameTaken_Return"
    /\ End(t)
    /\ UNCHANGED <<peers, heap, agentNames, agentRegistry, peersMu, ops>>
    /\ UNCHANGED netVars

\* the steps of task t once it has started: none of them waits for anything
\* but, in the two notification steps, the mutex
Step(t) ==
    \/ onPeerConnected_Apply(t)
    \/ onPeerDisconnected_Apply(t)
    \/ RegisterAgentName_Set(t)
    \/ handleRegister_Reject(t)
    \/ handleRegister_Record(t)
    \/ IsNameTaken_Read(t)
    \/ IsNameTaken_Return(t)
    \/ GetPeers_Copy(t)
    \/ HandleListAgents_Loop(t)
    \/ HandleListAgents_Return(t)
    \/ Broadcast_Snapshot(t)
    \/ Broadcast_Dispatch(t)

\* The mutex does not look at the data: one peer whose connection comes and
\* goes and one name that every peer claims bring about every way in which
\* the users of the mutex meet.
Neighbour == 1
ContestedName == 1

LockNext ==
    \/ \E t \in Tasks, p \in {Neighbour} : ConnectedF_Call(t, p)
    \/ \E t \in Tasks, p \in {Neighbour} : DisconnectedF_Call(t, p)
    \/ \E t \in Tasks, p \in PeerIDs, n \in {ContestedName} : RegisterAgentName_Check(t, p, n)
    \/ \E t \in Tasks, n \in {ContestedName} : IsNameTaken_RLock(t, n)
    \/ \E t \in Tasks : GetPeers_RLock(t)
    \/ \E t \in Tasks : Broadcast_RLock(t)
    \/ \E t \in Tasks : Step(t)

\* a goroutine that can run does run: the Go scheduler is fair, and a
\* goroutine waiting in Lock() gets the mutex once it stays free
LockSpec == Init /\ [][LockNext]_vars /\ \A t \in Tasks : WF_vars(Step(t))

\* ====================================================== outbound messaging
\* The messaging view: the node sends to its peers.  The far end of a stream
\* is the peer, which may answer with any bytes, reset the stream, or stay
\* silent; the registry is as some sequence of notifications left it.
EmptyHost == [peers |-> <<>>, heap |-> <<>>, agentNames |-> <<>>]

\* the registry after a connect notification for every peer of `known` and a
\* disconnect notification for those outside `conn`
RECURSIVE Notified(_, _, _)
Notified(h, known, conn) ==
    IF known = {} THEN h
    ELSE LET p == CHOOSE x \in known : \A y \in known : x <= y
             c == onPeerConnected(h, p)
         IN Notified(IF p \in conn THEN c ELSE onPeerDisconnected(c, p),
                     known \ {p}, conn)

\* a.config.AgentName
LocalName == 1

\* json.Marshal(payload) of a RegisterPayload
MarshalRegisterPayload(payload) ==
    JObject([k \in {"agent_name", "endpoint", "models"} |->
        CASE k = "agent_name" -> JString("name", payload.AgentName)
          [] k = "endpoint" -> JString("endpoint", payload.Endpoint)
          [] k = "models" -> JArray])

\* the message broadcastRegistration builds
RegisterMessage(from, name) ==
    [ZeroMessage EXCEPT !.Type = MessageTypeRegister, !.From = from,
                        !.Payload = Raw(MarshalRegisterPayload(RegisterPayload(from, name)))]
\* the message HandleAnnounce builds; its payload is the announcement
AnnounceMessage(from) ==
    [ZeroMessage EXCEPT !.Type = MessageTypeAnnounce, !.From = from,
                        !.Payload = Raw(JObject([k \in {"type", "name", "url"} |->
                                                     JString(k, 0)]))]
\* the message HandleSendToAgent builds for agentID; its payload is the request
ChatMessage(from, agentID, requestID) ==
    [ZeroMessage EXCEPT !.Type = MessageTypeChat, !.From = from, !.To = agentID,
                        !.RequestID = requestID,
                        !.Payload = Raw(JObject([k \in {"model", "messages"} |->
                                                     IF k = "model" THEN JString("gpt-4", 0)
                                                     ELSE JArray]))]

SendInit ==
    /\ \E known \in SUBSET PeerIDs :
          \E conn \in SUBSET known :
             LET h == Notified(EmptyHost, known, conn)
             IN peers = h.peers /\ heap = h.heap
    /\ agentNames = <<>>
    /\ agentRegistry = <<>>
    /\ peersMu = [writer |-> NoTask, readers |-> {}]
    /\ pc = [t \in Tasks |-> "idle"]
    /\ frame = [t \in Tasks |-> EmptyFrame]
    /\ ops = 0
    /\ msgHandler = "set"
    /\ inbound = [s \in StreamIDs |-> IdleInbound]
    /\ bcast = IdleBroadcast
    /\ send = [i \in SendIDs |-> IdleSend]
    /\ stream = [i \in SendIDs |-> NoStream]
    /\ ctxDone = {}
    /\ http = NoRequest
    /\ conns = NoConnections

\* the slot of the next SendMessage call
FreeSend(i) == send[i].pc = "idle" /\ \A j \in SendIDs : j < i => send[j].pc # "idle"

\* SendMessage(ctx, pid, msg) is called
CallSendMessage(ctx, pid, msg) ==
    [IdleSend EXCEPT !.pc = "NewStream", !.ctx = ctx, !.pid = pid, !.msg = msg]

\* the calls Broadcast has started
BroadcastSends == {i \in SendIDs : send[i].pc # "idle" /\ send[i].ctx = BroadcastCtx}

\* Broadcast(ctx, msg), called by broadcastRegistration or HandleAnnounce: the
\* snapshot of the connected peers, taken between RLock() and RUnlock()
Broadcast_Enter(msg) ==
    /\ bcast.pc = "idle"
    /\ LET snap == ConnectedPeers(peers, heap)
       IN bcast' = [IdleBroadcast EXCEPT !.pc = "Dispatch", !.msg = msg,
                                         !.snap = snap, !.rest = snap]
    /\ UNCHANGED <<coreVars, apiVars, swarmVars, inVars, send, stream, ctxDone>>

\* one more pass of the loop that never leaves the peer it has served
RestKeepsPeer(rest, pid) == rest

\* the peers `for _, peerID := range peers` has still to reach
Rest(rest, pid) == rest \ {pid}

\* one iteration of the loop of Broadcast: go func(pid) { h.SendMessage(ctx,
\* pid, msg) }(peerID); the new goroutine is at the call of SendMessage
Broadcast_Go(i, pid) ==
    /\ bcast.pc = "Dispatch"
    /\ pid \in bcast.rest
    /\ FreeSend(i)
    /\ send' = [send EXCEPT ![i] = CallSendMessage(BroadcastCtx, pid, bcast.msg)]
    /\ bcast' = [bcast EXCEPT !.rest = Rest(bcast.rest, pid)]
    /\ UNCHANGED <<coreVars, apiVars, swarmVars, inVars, stream, ctxDone>>

\* a Broadcast that reports the error of a send that has failed
BroadcastFirstError(sends) ==
    IF \E i \in SendIDs : sends[i].err # NoError
    THEN Error("broadcast failed")
    ELSE NoError

\* a Broadcast that hands an error reply of a peer to its caller
BroadcastReportsErrorReply(sends) ==
    IF \E i \in SendIDs : sends[i].resp.Type = MessageTypeError
    THEN Error("rejected by peer")
    ELSE NoError

\* return nil
BroadcastResult(sends) == NoError

\* the loop of Broadcast is over: return nil
Broadcast_Return ==
    /\ bcast.pc = "Dispatch"
    /\ bcast.rest = {}
    /\ bcast' = [bcast EXCEPT !.pc = "returned", !.err = BroadcastResult(send)]
    /\ UNCHANGED <<coreVars, apiVars, swarmVars, inVars, send, stream, ctxDone>>

\* For a directed send the peers are interchangeable: the first peer ever
\* addressed is called 1, the next new one 2, and so on.
NextPeer(p) == p = 1 \/ \E i \in SendIDs : send[i].pid >= p - 1

\* uuid.New().String(): a value no earlier call has drawn
NewUUID == Cardinality({i \in SendIDs : send[i].pc # "idle"}) + 1

\* HandleSendToAgent(ctx, agentID, req) up to its call of SendMessage; ctx may
\* be past its deadline already
HandleSendToAgent_Send(i, agentID, expired) ==
    /\ FreeSend(i)
    /\ NextPeer(agentID)
    /\ NewUUID \in RequestIDs
    /\ send' = [send EXCEPT ![i] =
                   CallSendMessage(i, agentID, ChatMessage(LocalID, agentID, NewUUID))]
    /\ ctxDone' = IF expired THEN ctxDone \cup {i} ELSE ctxDone
    /\ UNCHANGED <<coreVars, apiVars, swarmVars, inVars, bcast, stream>>

\* a SendMessage without the deferred s.Close()
ReturnWithoutClose(i, response, err) ==
    /\ send' = [send EXCEPT ![i].pc = "done", ![i].resp = response, ![i].err = err,
                            ![i].opens = IF send[i].pc = "NewStream" THEN @ + 1 ELSE @]
    /\ stream' = stream

\* SendMessage returns (response, err); the deferred s.Close() runs when a
\* stream was opened
Return(i, response, err) ==
    /\ send' = [send EXCEPT ![i].pc = "done", ![i].resp = response, ![i].err = err,
                            ![i].opens = IF send[i].pc = "NewStream" THEN @ + 1 ELSE @]
    /\ stream' = IF stream[i].state = "none" THEN stream
                 ELSE [stream EXCEPT ![i].closed = TRUE]

\* a SendMessage that keeps a failed open to itself
OpenErrorSwallowed == NoError

\* fmt.Errorf("failed to open stream: %w", err)
OpenError == Error("failed to open stream")

\* h.host.NewStream(ctx, peerID, ProtocolID) returns: a fresh stream, or an
\* error because the peer cannot be reached or ctx is done; while the peer's
\* transport hangs the call stays here
SendMessage_NewStream(i, ok) ==
    /\ send[i].pc = "NewStream"
    /\ IF ok
       THEN /\ send[i].ctx \notin ctxDone
            /\ send' = [send EXCEPT ![i].pc = "Write", ![i].opens = @ + 1]
            /\ stream' = [stream EXCEPT ![i].state = "open"]
       ELSE Return(i, NilMessage, OpenError)
    /\ UNCHANGED <<coreVars, apiVars, swarmVars, inVars, bcast, ctxDone>>

\* data, err := json.Marshal(msg); s.Write(data): the whole encoding in one
\* call, or an error when the stream has failed
SendMessage_Write(i) ==
    /\ send[i].pc = "Write"
    /\ IF stream[i].state = "reset"
       THEN Return(i, NilMessage, Error("failed to write message"))
       ELSE /\ send' = [send EXCEPT ![i].pc = "CloseWrite"]
            /\ stream' = [stream EXCEPT ![i].req = Append(@, Marshal(send[i].msg))]
    /\ UNCHANGED <<coreVars, apiVars, swarmVars, inVars, bcast, ctxDone>>

\* s.CloseWrite(): the write side is half-closed; the result of the call is
\* not looked at, so on a failed stream the call goes on to the read
SendMessage_CloseWrite(i) ==
    /\ send[i].pc = "CloseWrite"
    /\ send' = [send EXCEPT ![i].pc = "Read"]
    /\ stream' = [stream EXCEPT ![i].wclosed = (stream[i].state # "reset")]
    /\ UNCHANGED <<coreVars, apiVars, swarmVars, inVars, bcast, ctxDone>>

\* io.ReadAll(reader) returns when the peer has closed the stream or the
\* stream has failed; the context of the call is not consulted
ReadEnds(st) == st.eof \/ st.state = "reset"

\* a SendMessage without the length check: no bytes fail to decode
ResponseWithoutLengthCheck(respData) ==
    LET r == Unmarshal(respData)
    IN IF r.err # NoError
       THEN [err |-> Error("failed to unmarshal response"), msg |-> NilMessage]
       ELSE [err |-> NoError, msg |-> r.msg]

\* a SendMessage that returns whatever the decoder left, without its error
ResponseIgnoresDecodeError(respData) ==
    IF respData.kind = "empty"
    THEN [err |-> NoError, msg |-> NilMessage]
    ELSE [err |-> NoError, msg |-> Unmarshal(respData).msg]

\* what SendMessage makes of the bytes it has read
Response(respData) ==
    IF respData.kind = "empty"
    THEN [err |-> NoError, msg |-> NilMessage]
    ELSE LET r == Unmarshal(respData)
         IN IF r.err # NoError
            THEN [err |-> Error("failed to unmarshal response"),
                  msg |-> NilMessage]
            ELSE [err |-> NoError, msg |-> r.msg]

\* respData, err := io.ReadAll(reader) and the rest of SendMessage
SendMessage_Read(i) ==
    /\ send[i].pc = "Read"
    /\ ReadEnds(stream[i])
    /\ IF stream[i].state = "reset" \/ ~stream[i].eof
       THEN Return(i, NilMessage, Error("failed to read response"))
       ELSE Return(i, Response(stream[i].resp).msg, Response(stream[i].resp).err)
    /\ UNCHANGED <<coreVars, apiVars, swarmVars, inVars, bcast, ctxDone>>

\* what peer pid may write before it closes the stream: nothing, bytes that
\* are no envelope, or the error reply of its own handleRegister
ReplyBytes(pid) ==
    {NoBytes, Garbage,
     Marshal([ZeroMessage EXCEPT !.Type = MessageTypeError, !.From = pid,
                                 !.Payload = Raw(JObject([k \in {"error"} |->
                                                              JString("name_taken", 0)]))])}

\* the peer has read the request to its end, writes `data` and closes
Peer_Reply(i, data) ==
    /\ stream[i].state = "open"
    /\ stream[i].wclosed
    /\ ~stream[i].eof
    /\ ~stream[i].closed
    /\ stream' = [stream EXCEPT ![i].resp = data, ![i].eof = TRUE]
    /\ UNCHANGED <<coreVars, apiVars, swarmVars, inVars, bcast, send, ctxDone>>

\* the peer, or the connection to it, fails: the stream is reset
Peer_Reset(i) ==
    /\ stream[i].state = "open"
    /\ ~stream[i].eof
    /\ ~stream[i].closed
    /\ stream' = [stream EXCEPT ![i].state = "reset"]
    /\ UNCHANGED <<coreVars, apiVars, swarmVars, inVars, bcast, send, ctxDone>>

\* the caller of an operation in progress cancels its ctx, or the deadline
\* of ctx passes
Cancel(ctx) ==
    /\ ctx \notin ctxDone
    /\ IF ctx = BroadcastCtx
       THEN bcast.pc = "Dispatch" \/ \E i \in BroadcastSends : send[i].pc # "done"
       ELSE send[ctx].ctx = ctx /\ send[ctx].pc # "done"
    /\ ctxDone' = ctxDone \cup {ctx}
    /\ UNCHANGED <<coreVars, apiVars, swarmVars, inVars, bcast, send, stream>>

\* the sends of the node and what its peers do with the streams
SendSteps ==
    \/ \E i \in SendIDs, ok \in BOOLEAN : SendMessage_NewStream(i, ok)
    \/ \E i \in SendIDs : SendMessage_Write(i)
    \/ \E i \in SendIDs : SendMessage_CloseWrite(i)
    \/ \E i \in SendIDs : SendMessage_Read(i)
    \/ \E i \in SendIDs : \E data \in ReplyBytes(send[i].pid) : Peer_Reply(i, data)
    \/ \E i \in SendIDs : Peer_Reset(i)
    \/ \E c \in Contexts : Cancel(c)

\* one Broadcast and the sends it starts
FanoutNext ==
    \/ \E name \in {LocalName} : Broadcast_Enter(RegisterMessage(LocalID, name))
    \/ \E i \in SendIDs, p \in PeerIDs : Broadcast_Go(i, p)
    \/ Broadcast_Return
    \/ SendSteps

FanoutSpec == SendInit /\ [][FanoutNext]_vars

\* directed sends, each for its own HTTP request; they do not consult the
\* registry, which is as at construction
DirectInit == NewHost /\ NoTraffic

DirectNext ==
    \/ \E i \in SendIDs, p \in PeerIDs, expired \in BOOLEAN :
          HandleSendToAgent_Send(i, p, expired)
    \/ SendSteps

DirectSpec == DirectInit /\ [][DirectNext]_vars

\* ========================================================== the start view
\* Agent.Start: NewHost has registered the notifications, discovery and the
\* bootstrap dial are running, and Start ends with broadcastRegistration.
\* The libp2p network opens and closes connections to the peers at any time,
\* before, during and after the broadcast, and reports each of them.
\* Each send is followed up to the write of the message; what comes after it
\* is in the messaging view.

\* a notification handler that sends the register message to the peer that
\* has just connected, once the startup broadcast is under way
Swarm_ConnectedSendsRegister(p) ==
    /\ CanLock
    /\ CountOp
    /\ conns' = [conns EXCEPT ![p] = @ + 1]
    /\ LET h == onPeerConnected(Host, p)
       IN /\ peers' = h.peers
          /\ heap' = h.heap
          /\ agentNames' = h.agentNames
    /\ IF bcast.pc # "idle" /\ \E i \in SendIDs : FreeSend(i)
       THEN \E i \in SendIDs :
               /\ FreeSend(i)
               /\ send' = [send EXCEPT ![i] =
                              CallSendMessage(BroadcastCtx, p,
                                              RegisterMessage(LocalID, LocalName))]
       ELSE send' = send
    /\ UNCHANGED <<agentRegistry, peersMu, pc, frame>>
    /\ UNCHANGED <<inVars, bcast, stream, ctxDone, apiVars>>

\* the network has opened one more connection to p and calls
\* NotifyBundle.ConnectedF: p2pHost.onPeerConnected(c.RemotePeer())
Swarm_Connected(p) ==
    /\ CanLock
    /\ CountOp
    /\ conns' = [conns EXCEPT ![p] = @ + 1]
    /\ LET h == onPeerConnected(Host, p)
       IN /\ peers' = h.peers
          /\ heap' = h.heap
          /\ agentNames' = h.agentNames
    /\ UNCHANGED <<agentRegistry, peersMu, pc, frame>>
    /\ UNCHANGED <<inVars, outVars, apiVars>>

\* one of the open connections to p has closed and the network calls
\* NotifyBundle.DisconnectedF: p2pHost.onPeerDisconnected(c.RemotePeer())
Swarm_Disconnected(p) ==
    /\ conns[p] > 0
    /\ CanLock
    /\ CountOp
    /\ conns' = [conns EXCEPT ![p] = @ - 1]
    /\ LET h == onPeerDisconnected(Host, p)
       IN /\ peers' = h.peers
          /\ heap' = h.heap
          /\ agentNames' = h.agentNames
    /\ UNCHANGED <<agentRegistry, peersMu, pc, frame>>
    /\ UNCHANGED <<inVars, outVars, apiVars>>

\* a.broadcastRegistration(ctx), the last statement of Start before return nil
Start_broadcastRegistration ==
    Broadcast_Enter(RegisterMessage(LocalID, LocalName))

StartInit == NewHost /\ NoTraffic

StartNext ==
    \/ \E p \in PeerIDs : Swarm_Connected(p)
    \/ \E p \in PeerIDs : Swarm_Disconnected(p)
    \/ Start_broadcastRegistration
    \/ \E i \in SendIDs, p \in PeerIDs : Broadcast_Go(i, p)
    \/ Broadcast_Return
    \/ \E i \in SendIDs, ok \in BOOLEAN : SendMessage_NewStream(i, ok)
    \/ \E i \in SendIDs : SendMessage_Write(i)

StartSpec == StartInit /\ [][StartNext]_vars

\* ======================================================= inbound messaging
\* The node is sent to: a peer opens a stream, writes its request and
\* half-closes, handleStream serves the stream, and the peer, inside its own
\* SendMessage, reads what came back.

\* json.Unmarshal(msg.Payload, &payload) for a struct: no bytes are an error,
\* a value that is neither an object nor null is an error
PayloadError(raw) == ~raw.present \/ raw.json.t \notin {"object", "null"}

\* the RegisterPayload decoded from the payload of a register message
UnmarshalRegisterPayload(raw) ==
    LET m == raw.json.m
    IN [AgentName |-> IF "agent_name" \in DOMAIN m THEN m["agent_name"].n ELSE NoName,
        Endpoint |-> IF "endpoint" \in DOMAIN m THEN m["endpoint"].n ELSE NoPeer,
        Models |-> <<"gpt-4", "gpt-3.5-turbo">>]

\* &p2p.Message{Type: MessageTypePong, From: a.p2pHost.ID().String()}
PongMessage == [ZeroMessage EXCEPT !.Type = MessageTypePong, !.From = LocalID]

\* the error reply of handleRegister: its payload is {"error": err.Error()}
ErrorMessage(err) ==
    [ZeroMessage EXCEPT !.Type = MessageTypeError, !.From = LocalID,
                        !.Payload = Raw(JObject([k \in {"error"} |->
                                                     JString(err.kind, 0)]))]

\* a complete reply that carries no request id
CompleteWithoutRequestID(msg) ==
    [ZeroMessage EXCEPT !.Type = MessageTypeComplete, !.From = LocalID,
                        !.Payload = Raw(JObject([k \in {"choices"} |-> JArray]))]

\* the reply of handleChatRequest: the request id of msg and the marshalled
\* completion
CompleteMessage(msg) ==
    [ZeroMessage EXCEPT !.Type = MessageTypeComplete, !.From = LocalID,
                        !.RequestID = msg.RequestID,
                        !.Payload = Raw(JObject([k \in {"choices"} |-> JArray]))]

\* what a handler returns: (response, err) and the tables as it leaves them
Returns(response, err, names, registry) ==
    [agentNames |-> names, agentRegistry |-> registry, err |-> err,
     resp |-> response]

\* a handleRegister that records the sender before it asks the name arbiter
handleRegisterRecordsFirst(from, msg, names, registry) ==
    IF PayloadError(msg.Payload)
    THEN Returns(NilMessage, Error("payload"), names, registry)
    ELSE LET payload == UnmarshalRegisterPayload(msg.Payload)
             recorded == MapSet(registry, from, NewAgentRecord(from, payload))
         IN IF NameConflict(names, payload.AgentName, from)
            THEN Returns(ErrorMessage(ConflictError(names, payload.AgentName, from)),
                         NoError, names, recorded)
            ELSE Returns(PongMessage, NoError,
                         ClaimName(names, payload.AgentName, from), recorded)

\* handleRegister(from, msg), taken as one step
handleRegister(from, msg, names, registry) ==
    IF PayloadError(msg.Payload)
    THEN Returns(NilMessage, Error("payload"), names, registry)
    ELSE LET payload == UnmarshalRegisterPayload(msg.Payload)
         IN IF NameConflict(names, payload.AgentName, from)
            THEN Returns(ErrorMessage(ConflictError(names, payload.AgentName, from)),
                         NoError, names, registry)
            ELSE Returns(PongMessage, NoError,
                         ClaimName(names, payload.AgentName, from),
                         MapSet(registry, from, NewAgentRecord(from, payload)))

\* handleChatRequest(ctx, from, msg); `forwarded` tells whether forwardToOpenAI
\* came back with a completion
handleChatRequest(from, msg, names, registry, forwarded) ==
    IF PayloadError(msg.Payload) \/ ~forwarded
    THEN Returns(NilMessage, Error("chat"), names, registry)
    ELSE Returns(CompleteMessage(msg), NoError, names, registry)

\* handlePing(from, msg)
handlePing(from, msg, names, registry) == Returns(PongMessage, NoError, names, registry)

\* handleAnnounce(from, msg)
handleAnnounce(from, msg, names, registry) ==
    IF PayloadError(msg.Payload)
    THEN Returns(NilMessage, Error("payload"), names, registry)
    ELSE Returns(PongMessage, NoError, names, registry)

\* a dispatch that treats a type it does not know as a ping
UnknownTypeAnswered(from, msg, names, registry) == handlePing(from, msg, names, registry)

\* the default branch of handleP2PMessage: log, return nil, nil
UnknownTypeIgnored(from, msg, names, registry) ==
    Returns(NilMessage, NoError, names, registry)

\* handleP2PMessage(ctx, from, msg): the switch on msg.Type
handleP2PMessage(from, msg, names, registry, forwarded) ==
    CASE msg.Type = MessageTypeRegister -> handleRegister(from, msg, names, registry)
      [] msg.Type = MessageTypeChat -> handleChatRequest(from, msg, names, registry, forwarded)
      [] msg.Type = MessageTypePing -> handlePing(from, msg, names, registry)
      [] msg.Type = MessageTypeAnnounce -> handleAnnounce(from, msg, names, registry)
      [] OTHER -> UnknownTypeIgnored(from, msg, names, registry)

\* the messages a peer may send: those the node itself builds, a ping, a chat
\* request whose payload is not a request, and one of a type unknown here
Requests(from) ==
    {RegisterMessage(from, n) : n \in Names}
        \cup {ChatMessage(from, LocalID, r) : r \in RequestIDs}
        \cup {[ChatMessage(from, LocalID, 1) EXCEPT !.Payload = Raw(JArray)],
              AnnounceMessage(from),
              [ZeroMessage EXCEPT !.Type = MessageTypePing, !.From = from],
              [AnnounceMessage(from) EXCEPT !.Type = UnknownType]}

\* the tables hold the claim of one peer, or nothing; no stream yet
StreamInit ==
    /\ peers = <<>>
    /\ heap = <<>>
    /\ \E owner \in PeerIDs \cup {NoPeer} :
          LET n == CHOOSE x \in Names : \A y \in Names : x <= y
          IN IF owner = NoPeer
             THEN agentNames = <<>> /\ agentRegistry = <<>>
             ELSE /\ agentNames = ClaimName(<<>>, n, owner)
                  /\ agentRegistry = MapSet(<<>>, owner,
                                            NewAgentRecord(owner, RegisterPayload(owner, n)))
    /\ peersMu = [writer |-> NoTask, readers |-> {}]
    /\ pc = [t \in Tasks |-> "idle"]
    /\ frame = [t \in Tasks |-> EmptyFrame]
    /\ ops = 0
    /\ NoTraffic

\* a.p2pHost.SetMessageHandler(a.handleP2PMessage), in Start
SetMessageHandler ==
    /\ msgHandler = "nil"
    /\ msgHandler' = "set"
    /\ UNCHANGED <<coreVars, apiVars, swarmVars, inbound, outVars>>

\* the slot of the next inbound stream
FreeStream(s) ==
    inbound[s].pc = "idle" /\ \A u \in StreamIDs : u < s => inbound[u].pc # "idle"

\* peer `from`, in its SendMessage, opens a stream to the node and writes the
\* encoding of msg; handleStream starts in a goroutine of its own and reads
Peer_Send(s, from, msg) ==
    /\ FreeStream(s)
    /\ inbound' = [inbound EXCEPT ![s] =
                      [IdleInbound EXCEPT !.pc = "ReadAll", !.from = from,
                                          !.sent = msg, !.data = Marshal(msg)]]
    /\ UNCHANGED <<coreVars, apiVars, swarmVars, msgHandler, outVars>>

\* bytes that no Marshal call produces: none at all, bytes that are not JSON,
\* the text of an array and the text null
RawRequests == {NoBytes, Garbage, Text(JArray), Text(JNull)}

\* a peer opens a stream and writes bytes that are no envelope, or none
Peer_SendRaw(s, from, data) ==
    /\ FreeStream(s)
    /\ inbound' = [inbound EXCEPT ![s] =
                      [IdleInbound EXCEPT !.pc = "ReadAll", !.from = from, !.data = data]]
    /\ UNCHANGED <<coreVars, apiVars, swarmVars, msgHandler, outVars>>

\* the peer half-closes the stream (s.CloseWrite() in its SendMessage): the
\* reader of the node meets the end of the stream
Peer_CloseWrite(s) ==
    /\ inbound[s].pc # "idle"
    /\ ~inbound[s].wclosed
    /\ inbound' = [inbound EXCEPT ![s].wclosed = TRUE]
    /\ UNCHANGED <<coreVars, apiVars, swarmVars, msgHandler, outVars>>

\* a read that returns with the bytes that have arrived
ReadReturnsEarly(rec) == TRUE

\* io.ReadAll(reader) returns when the reader meets the end of the stream
ReadAllReturns(rec) == rec.wclosed

\* the deferred s.Close() of handleStream
Close(s, rec) == [inbound EXCEPT ![s] = [rec EXCEPT !.pc = "closed", !.closed = TRUE]]

\* handleStream: io.ReadAll, json.Unmarshal and the test of h.msgHandler; the
\* stream is closed when the bytes do not decode or no handler is set
handleStream_Unmarshal(s) ==
    /\ inbound[s].pc = "ReadAll"
    /\ ReadAllReturns(inbound[s])
    /\ LET r == Unmarshal(inbound[s].data)
       IN IF r.err # NoError
          THEN inbound' = Close(s, [inbound[s] EXCEPT !.err = r.err])
          ELSE IF msgHandler = "nil"
          THEN inbound' = Close(s, [inbound[s] EXCEPT !.msg = r.msg])
          ELSE inbound' = [inbound EXCEPT ![s].msg = r.msg, ![s].pc = "Handler"]
    /\ UNCHANGED <<coreVars, apiVars, swarmVars, msgHandler, outVars>>

\* response, err := h.msgHandler(h.ctx, s.Conn().RemotePeer(), &msg); the
\* stream is closed when the handler returns an error or no message
handleStream_Handler(s, forwarded) ==
    /\ inbound[s].pc = "Handler"
    /\ LET r == handleP2PMessage(inbound[s].from, inbound[s].msg,
                                 agentNames, agentRegistry, forwarded)
           rec == [inbound[s] EXCEPT !.calls = @ + 1, !.resp = r.resp, !.err = r.err]
       IN /\ agentNames' = r.agentNames
          /\ agentRegistry' = r.agentRegistry
          /\ IF r.err # NoError \/ r.resp = NilMessage
             THEN inbound' = Close(s, rec)
             ELSE inbound' = [inbound EXCEPT ![s] = [rec EXCEPT !.pc = "Write"]]
    /\ UNCHANGED <<peers, heap, peersMu, pc, frame, ops, msgHandler, outVars, apiVars, swarmVars>>

\* a handleStream that drops the message of the handler
WriteNothing(written, response) == written

\* s.Write(respData) with respData the encoding of the response
Write(written, response) == Append(written, Marshal(response))

\* respData, err := json.Marshal(response); s.Write(respData); s.Close()
handleStream_Write(s) ==
    /\ inbound[s].pc = "Write"
    /\ inbound' = Close(s, [inbound[s] EXCEPT !.written = Write(@, inbound[s].resp)])
    /\ UNCHANGED <<coreVars, apiVars, swarmVars, msgHandler, outVars>>

\* the bytes the peer finds on the stream once it is closed
Written(rec) == IF rec.written = <<>> THEN NoBytes ELSE rec.written[1]

\* the SendMessage of the peer reads the stream to its end and returns
Peer_Read(s) ==
    /\ inbound[s].pc = "closed"
    /\ inbound' = [inbound EXCEPT ![s].pc = "received",
                                  ![s].got = Response(Written(inbound[s]))]
    /\ UNCHANGED <<coreVars, apiVars, swarmVars, msgHandler, outVars>>

StreamNext ==
    \/ SetMessageHandler
    \/ \E s \in StreamIDs, from \in PeerIDs : \E msg \in Requests(from) : Peer_Send(s, from, msg)
    \/ \E s \in StreamIDs, from \in PeerIDs :
          \E data \in RawRequests : Peer_SendRaw(s, from, data)
    \/ \E s \in StreamIDs : Peer_CloseWrite(s)
    \/ \E s \in StreamIDs : handleStream_Unmarshal(s)
    \/ \E s \in StreamIDs, forwarded \in BOOLEAN : handleStream_Handler(s, forwarded)
    \/ \E s \in StreamIDs : handleStream_Write(s)
    \/ \E s \in StreamIDs : Peer_Read(s)

StreamSpec == StreamInit /\ [][StreamNext]_vars

\* ================================================================= HTTP API
\* The API server of the node (package api): an HTTP request is routed by the
\* gin engine to the chain of handlers registered for its method and path,
\* and the chain runs in the goroutine of the request.  What a request handler
\* does inside the node is the matter of the other views; here it is the name
\* of the handler that ran and the status it wrote.  Requests share nothing
\* but the fields of Server, which are not written after NewServer, so one
\* exchange is followed.

\* s.apiKey, a.config.APIKey; Validate refuses the empty key
APIKey == "sk-key"
\* any other key
OtherKey == "sk-other"

\* values of the Authorization header, word by word; <<>> is no header
AuthHeaders ==
    {<<>>, <<"Bearer">>, <<"Bearer", APIKey>>, <<"Bearer", OtherKey>>,
     <<APIKey>>, <<OtherKey>>}

Methods == {"GET", "POST"}
Paths ==
    {"/health", "/v1/models", "/v1/chat/completions", "/v1/agents",
     "/v1/agents/:agent_id/chat/completions", "/v1/announce"}

StatusOK == 200
StatusBadRequest == 400
StatusUnauthorized == 401
StatusNotFound == 404
StatusInternalServerError == 500

\* setupRoutes: s.router.GET("/health", s.healthCheck)
RouterRoutes == <<"GET", "/health">> :> <<"healthCheck">>

\* v1.Use(s.authMiddleware())
V1Middleware == <<"authMiddleware">>

\* setupRoutes: the routes of the group v1 := s.router.Group("/v1"), each with
\* the middleware of the group before its handler
V1Routes ==
    LET route(method, path, handler) ==
            <<method, path>> :> (V1Middleware \o <<handler>>)
    IN route("GET", "/v1/models", "listModels")
         @@ route("POST", "/v1/chat/completions", "chatCompletions")
         @@ route("GET", "/v1/agents", "listAgents")
         @@ route("POST", "/v1/agents/:agent_id/chat/completions", "agentChatCompletions")

\* the routing table after setupRoutes
Routes == RouterRoutes @@ V1Routes

\* the handlers that serve requests, as opposed to middleware
RequestHandlers ==
    {"healthCheck", "listModels", "chatCompletions", "listAgents",
     "agentChatCompletions"}

\* strings.TrimPrefix(auth, "Bearer ")
TrimPrefix(auth) ==
    IF Len(auth) > 0 /\ auth[1] = "Bearer" THEN Tail(auth) ELSE auth

\* an authMiddleware that only wants some header
AnyTokenAccepted(auth) == TRUE

\* token == s.apiKey
TokenAccepted(auth) == TrimPrefix(auth) = <<APIKey>>

\* an HTTP client sends a request to the API port
Client_Do(method, path, auth) ==
    /\ http.pc = "idle"
    /\ http' = [NoRequest EXCEPT !.pc = "serve", !.method = method, !.path = path,
                                 !.auth = auth, !.by = "client"]
    /\ UNCHANGED <<coreVars, inVars, outVars, swarmVars>>

\* runAnnounce (the announce command) up to client.Do(req): without an API
\* key it returns an error; otherwise it posts to /v1/announce with the
\* header "Bearer " + apiKey
runAnnounce_Do(apiKey) ==
    /\ http.pc = "idle"
    /\ IF apiKey = ""
       THEN http' = [NoRequest EXCEPT !.pc = "returned", !.by = "runAnnounce",
                                      !.err = "API key required"]
       ELSE http' = [NoRequest EXCEPT !.pc = "serve", !.method = "POST",
                                      !.path = "/v1/announce",
                                      !.auth = <<"Bearer", apiKey>>,
                                      !.by = "runAnnounce"]
    /\ UNCHANGED <<coreVars, inVars, outVars, swarmVars>>

\* gin.Engine.handleHTTPRequest: the chain of the route that matches method
\* and path, or 404 page not found when no route matches
Engine_handleHTTPRequest ==
    /\ http.pc = "serve"
    /\ LET r == <<http.method, http.path>>
       IN IF r \in DOMAIN Routes
          THEN http' = [http EXCEPT !.pc = "chain", !.chain = Routes[r]]
          ELSE http' = [http EXCEPT !.pc = "answered", !.status = StatusNotFound]
    /\ UNCHANGED <<coreVars, inVars, outVars, swarmVars>>

\* the function authMiddleware returns: 401 and c.Abort() when the header is
\* missing or the token differs from the key, c.Next() otherwise
authMiddleware ==
    /\ http.pc = "chain"
    /\ Head(http.chain) = "authMiddleware"
    /\ IF http.auth = <<>> \/ ~TokenAccepted(http.auth)
       THEN http' = [http EXCEPT !.pc = "answered", !.chain = <<>>,
                                 !.ran = Append(@, "authMiddleware"),
                                 !.status = StatusUnauthorized]
       ELSE http' = [http EXCEPT !.chain = Tail(@),
                                 !.ran = Append(@, "authMiddleware")]
    /\ UNCHANGED <<coreVars, inVars, outVars, swarmVars>>

\* how a request handler may end: c.JSON(http.StatusOK, resp), or for the two
\* handlers that bind a body and call a handler that can fail, 400 and 500
Outcomes(handler) ==
    IF handler \in {"chatCompletions", "agentChatCompletions"}
    THEN {StatusOK, StatusBadRequest, StatusInternalServerError}
    ELSE {StatusOK}

\* the request handler at the head of the chain runs and writes its response
Server_Handler(status) ==
    /\ http.pc = "chain"
    /\ Head(http.chain) \in RequestHandlers
    /\ status \in Outcomes(Head(http.chain))
    /\ http' = [http EXCEPT !.pc = "answered", !.chain = Tail(@),
                            !.ran = Append(@, Head(http.chain)),
                            !.status = status]
    /\ UNCHANGED <<coreVars, inVars, outVars, swarmVars>>

\* runAnnounce after client.Do: an error unless the status is 200, else the
\* lines "Announced to network" and nil
runAnnounce_Return ==
    /\ http.pc = "answered"
    /\ http.by = "runAnnounce"
    /\ http' = [http EXCEPT !.pc = "returned",
                            !.err = IF http.status # StatusOK
                                    THEN "announce failed with status"
                                    ELSE ""]
    /\ UNCHANGED <<coreVars, inVars, outVars, swarmVars>>

ApiInit == NewHost /\ NoTraffic

ApiNext ==
    \/ \E method \in Methods, path \in Paths, auth \in AuthHeaders :
          Client_Do(method, path, auth)
    \/ \E apiKey \in {"", APIKey, OtherKey} : runAnnounce_Do(apiKey)
    \/ Engine_handleHTTPRequest
    \/ authMiddleware
    \/ \E status \in {StatusOK, StatusBadRequest, StatusInternalServerError} :
          Server_Handler(status)
    \/ runAnnounce_Return

ApiSpec == ApiInit /\ [][ApiNext]_vars

\* ================================================================ properties
IsConnected(p) == p \in DOMAIN peers /\ heap[peers[p]].Connected
IsDisconnected(p) == p \in DOMAIN peers /\ ~heap[peers[p]].Connected
\* task t is past RegisterAgentName, inside handleRegister
Answered(t) == pc[t] \in {"handleRegister_Reject", "handleRegister_Record"}
\* name n is owned by a peer other than q
OwnedByOther(n, q) == n \in DOMAIN agentNames /\ agentNames[n] # q
\* this step is task t's call of RegisterAgentName up to the result of its check
Checks(t) ==
    pc[t] = "idle" /\ pc'[t] \in {"handleRegister_Reject", "RegisterAgentName_Set"}

\* C1: every claimed name has one owner, a peer identity, and no step of any
\* interleaving of register handling and connect/disconnect notifications
\* takes a name away from its owner or gives it to another peer.
NameClaimsNeverReassigned ==
    [][/\ \A n \in DOMAIN agentNames :
             n \in DOMAIN agentNames' /\ agentNames'[n] = agentNames[n]
       /\ \A n \in DOMAIN agentNames' : agentNames'[n] \in PeerIDs]_vars

\* a second peer was turned away from a name whose owner is fully registered
SecondClaimantTurnedAway ==
    \E t \in Tasks :
        /\ pc[t] = "handleRegister_Reject"
        /\ OwnedByOther(frame[t].name, frame[t].peer)
        /\ agentNames[frame[t].name] \in DOMAIN agentRegistry

\* C2: the check and the assignment of RegisterAgentName are one atomic step:
\* the name a task is about to assign is never owned by another peer, a call
\* has succeeded exactly when its peer owns the name, and of two overlapping
\* calls of different peers for one name not both succeed, exactly one
\* succeeding when one of the two holds the name.
CheckAndSetIsAtomic ==
    /\ \A t \in Tasks :
          pc[t] = "RegisterAgentName_Set" => ~OwnedByOther(frame[t].name, frame[t].peer)
    /\ \A t \in Tasks :
          Answered(t) =>
             (pc[t] = "handleRegister_Record"
                <=> (frame[t].name \in DOMAIN agentNames
                       /\ agentNames[frame[t].name] = frame[t].peer))
    /\ \A t1, t2 \in Tasks :
          (/\ t1 # t2 /\ Answered(t1) /\ Answered(t2)
           /\ frame[t1].name = frame[t2].name /\ frame[t1].peer # frame[t2].peer)
          => /\ ~(pc[t1] = "handleRegister_Record" /\ pc[t2] = "handleRegister_Record")
             /\ (agentNames[frame[t1].name] \in {frame[t1].peer, frame[t2].peer}
                   => (pc[t1] = "handleRegister_Record" \/ pc[t2] = "handleRegister_Record"))

\* two overlapping calls of different peers for one name: one won, one lost
OneWinnerOneLoser ==
    \E t1, t2 \in Tasks :
        /\ pc[t1] = "handleRegister_Record" /\ pc[t2] = "handleRegister_Reject"
        /\ frame[t1].name = frame[t2].name /\ frame[t1].peer # frame[t2].peer

\* C3: a RegisterAgentName call for a name owned by a different peer returns
\* the name-taken error showing that owner (the first DisplayLen characters of
\* its text form) and changes neither the name table nor the peer table.
ConflictReportsOwner ==
    [][\A t \in Tasks :
          (Checks(t) /\ OwnedByOther(frame'[t].name, frame'[t].peer))
          => /\ pc'[t] = "handleRegister_Reject"
             /\ frame'[t].err =
                   [kind |-> "name_taken", name |-> frame'[t].name,
                    peer |-> SubSeq(PeerString(agentNames[frame'[t].name]), 1, DisplayLen)]
             /\ agentNames' = agentNames /\ peers' = peers /\ heap' = heap]_vars

\* a call was refused with the name-taken error while peers are known
ConflictWasReported ==
    \E t \in Tasks :
        /\ pc[t] = "handleRegister_Reject"
        /\ frame[t].err.kind = "name_taken"
        /\ DOMAIN peers # {}

\* C4: a RegisterAgentName call by the peer that already owns the name passes
\* the check, returns no error and leaves the name table as it was.
OwnerReRegistrationIsIdempotent ==
    [][\A t \in Tasks :
          /\ (/\ Checks(t)
               /\ frame'[t].name \in DOMAIN agentNames
               /\ agentNames[frame'[t].name] = frame'[t].peer)
              => (pc'[t] = "RegisterAgentName_Set" /\ agentNames' = agentNames)
          /\ (/\ pc[t] = "RegisterAgentName_Set" /\ pc'[t] # pc[t]
               /\ frame[t].name \in DOMAIN agentNames
               /\ agentNames[frame[t].name] = frame[t].peer)
              => /\ pc'[t] = "handleRegister_Record"
                 /\ frame'[t].err = NoError
                 /\ agentNames' = agentNames]_vars

\* the owner, already recorded under the name, registered it again with success
OwnerRegisteredAgain ==
    \E t \in Tasks :
        /\ pc[t] = "handleRegister_Record"
        /\ frame[t].peer \in DOMAIN agentRegistry
        /\ agentRegistry[frame[t].peer].Name = frame[t].name

\* C5: no peer identity owns two different names.
OneNamePerIdentity ==
    \A n1, n2 \in DOMAIN agentNames :
        agentNames[n1] = agentNames[n2] => n1 = n2

\* C6: a connect or disconnect notification removes or changes no name claim,
\* so IsNameTaken keeps answering (true, owner) for every claimed name, and a
\* claim by a different peer is still rejected while the owner is disconnected.
NameClaimSurvivesDisconnect ==
    [][/\ \A p \in PeerIDs :
             (ConnectedF(p) \/ DisconnectedF(p))
             => \A n \in DOMAIN agentNames :
                   IsNameTaken(agentNames', n) = [taken |-> TRUE, owner |-> agentNames[n]]
       /\ \A t \in Tasks :
             (/\ Checks(t)
              /\ OwnedByOther(frame'[t].name, frame'[t].peer)
              /\ IsDisconnected(agentNames[frame'[t].name]))
             => (pc'[t] = "handleRegister_Reject" /\ agentNames' = agentNames)]_vars

\* a peer was refused a name whose owner had connected and disconnected
RefusedWhileOwnerDisconnected ==
    \E t \in Tasks :
        /\ pc[t] = "handleRegister_Reject"
        /\ OwnedByOther(frame[t].name, frame[t].peer)
        /\ IsDisconnected(agentNames[frame[t].name])
        /\ IsNameTaken(agentNames, frame[t].name).owner # frame[t].peer

\* C7: a peer is in the connected set from its connect notification until its
\* next disconnect notification and out of it from a disconnect notification
\* until its next connect, and the set Broadcast snapshots is this set.
ConnectedSetFollowsNotifications ==
    [][/\ \A p \in PeerIDs :
             /\ ConnectedF(p) => IsConnected(p)'
             /\ DisconnectedF(p) => ~IsConnected(p)'
             /\ (~ConnectedF(p) /\ ~DisconnectedF(p)) => (IsConnected(p)' <=> IsConnected(p))
       /\ \A t \in Tasks :
             (pc[t] = "Broadcast_Snapshot" /\ pc'[t] # pc[t])
             => frame'[t].snap = {p \in PeerIDs : IsConnected(p)}]_vars

\* a Broadcast snapshot holds a connected peer and leaves out a disconnected one
SnapshotLeavesOutDisconnected ==
    \E t \in Tasks :
        /\ pc[t] = "Broadcast_Dispatch"
        /\ frame[t].snap # {}
        /\ \E q \in DOMAIN peers : q \notin frame[t].snap /\ IsDisconnected(q)

\* C8: no step removes or replaces a PeerInfo entry; a disconnect notification
\* for a known peer leaves its entry in the table with Connected = false.
PeerEntriesNeverRemoved ==
    [][/\ \A id \in DOMAIN peers :
             /\ id \in DOMAIN peers'
             /\ peers'[id] = peers[id]
             /\ peers[id] \in DOMAIN heap'
             /\ heap'[peers[id]].ID = id
       /\ \A p \in DOMAIN peers :
             DisconnectedF(p) => (p \in DOMAIN peers' /\ ~IsConnected(p)')]_vars

\* a peer that connected and disconnected is still in the table
DisconnectedPeerIsKept ==
    \E p \in PeerIDs : IsDisconnected(p) /\ peers[p] \in GetPeers(peers)

\* C9: in every reachable state, applying onPeerConnected twice gives what
\* applying it once gives, and for a known peer it only sets Connected; the
\* same for onPeerDisconnected, which changes nothing for an unknown peer.
NotificationsAreIdempotent ==
    \A p \in PeerIDs :
        LET c == onPeerConnected(Host, p)
            d == onPeerDisconnected(Host, p)
            OnlyFlag(h, v) ==
                /\ h.peers = peers
                /\ h.agentNames = agentNames
                /\ DOMAIN h.heap = DOMAIN heap
                /\ \A a \in DOMAIN heap :
                      /\ h.heap[a].ID = heap[a].ID
                      /\ h.heap[a].Name = heap[a].Name
                      /\ h.heap[a].Addrs = heap[a].Addrs
                      /\ h.heap[a].Connected =
                            IF a = peers[p] THEN v ELSE heap[a].Connected
        IN /\ onPeerConnected(c, p) = c
           /\ onPeerDisconnected(d, p) = d
           /\ p \in DOMAIN peers => (OnlyFlag(c, TRUE) /\ OnlyFlag(d, FALSE))
           /\ p \notin DOMAIN peers => d = Host

\* after three notifications one peer is known and disconnected, one unknown
KnownAndUnknownPeers ==
    /\ ops >= 3
    /\ agentNames = <<>>
    /\ \A t \in Tasks : pc[t] = "idle"
    /\ \E p \in PeerIDs : IsDisconnected(p)
    /\ \E q \in PeerIDs : q \notin DOMAIN peers

\* C10: what a caller observes through the result of a peer-set read does not
\* change once the read has released the lock: neither the entries reached
\* through the pointers GetPeers returned nor the identities Broadcast copied.
PeerReadIsACopy ==
    [][\A t \in Tasks :
          /\ (pc[t] = "HandleListAgents_Loop" /\ frame'[t] = frame[t])
                => \A a \in frame[t].ptrs : heap'[a] = heap[a]
          /\ (pc[t] = "Broadcast_Dispatch" /\ pc'[t] = pc[t])
                => frame'[t].snap = frame[t].snap]_vars

\* ------------------------------------------------- properties of messaging
\* the streams to peer p on which the node has written a request
CopiesAt(p) == {i \in SendIDs : send[i].pid = p /\ stream[i].req # <<>>}
\* the send of goroutine i got its stream and found it healthy when it wrote
Wrote(i) == send[i].pc \in {"Read", "done"} /\ stream[i].wclosed

\* C11: Broadcast starts one send per peer of its snapshot and no other, each
\* in a goroutine of its own; no peer ever gets a second copy of the message;
\* a send whose stream opened and took the write has delivered exactly one
\* copy; and no send waits for another: whatever the other sends do (fail,
\* return an error, hang), a send can open its stream unless its context is
\* done, and can write once the stream is open.
BroadcastSendsOncePerPeer ==
    /\ \A i, j \in BroadcastSends : send[i].pid = send[j].pid => i = j
    /\ {send[i].pid : i \in BroadcastSends} = bcast.snap \ bcast.rest
    /\ bcast.pc = "returned" => bcast.rest = {}
    /\ \A p \in PeerIDs : Cardinality(CopiesAt(p)) <= 1
    /\ \A i \in SendIDs : Len(stream[i].req) <= 1
    /\ \A i \in BroadcastSends :
          /\ Wrote(i) => stream[i].req = <<Marshal(bcast.msg)>>
          /\ (send[i].pc = "NewStream" /\ BroadcastCtx \notin ctxDone)
                => ENABLED SendMessage_NewStream(i, TRUE)
          /\ send[i].pc = "Write" => ENABLED SendMessage_Write(i)

\* Broadcast has returned; the open failed for one peer of the snapshot, the
\* send to a second is stuck in its open, and a third peer, or the second
\* when there are two, has its one copy
OneFailsOthersReceive ==
    /\ bcast.pc = "returned"
    /\ Cardinality(bcast.snap) = NumPeers
    /\ \E i, j \in BroadcastSends :
          /\ i # j
          /\ send[i].pc = "done" /\ send[i].err # NoError /\ stream[i].state = "none"
          /\ Wrote(j) /\ Cardinality(CopiesAt(send[j].pid)) = 1
          /\ \A k \in BroadcastSends \ {i, j} : send[k].pc = "NewStream"

\* C12: Broadcast returns as soon as its loop is over, whatever state the
\* sends it started are in, and what it returns is always nil.
BroadcastReturnsNilAtOnce ==
    /\ bcast.pc = "returned" => bcast.err = NoError
    /\ (bcast.pc = "Dispatch" /\ bcast.rest = {}) => ENABLED Broadcast_Return

\* Broadcast has returned nil although one send failed and one is not over
ReturnedBeforeSendsFinished ==
    /\ bcast.pc = "returned" /\ bcast.err = NoError
    /\ \E i \in BroadcastSends : send[i].pc = "done" /\ send[i].err # NoError
    /\ \E j \in BroadcastSends : send[j].pc # "done"

\* the peer has closed the stream of goroutine i, which has then returned
ReadToTheEnd(i) == send[i].pc = "done" /\ stream[i].state = "open" /\ stream[i].eof

\* C13: a SendMessage call that waits for the reply while its context is done
\* can return without the peer closing the stream.
CancelledSendReturns ==
    \A i \in SendIDs :
        (send[i].pc = "Read" /\ send[i].ctx \in ctxDone) => ENABLED SendMessage_Read(i)

\* C14: a SendMessage call whose peer closed the stream without writing a byte
\* has returned no message and no error.
NoReplyIsNotAnError ==
    \A i \in SendIDs :
        (ReadToTheEnd(i) /\ stream[i].resp = NoBytes)
        => (send[i].resp = NilMessage /\ send[i].err = NoError)

\* the peer read the request and closed without a byte; the call is over
PeerClosedSilently ==
    \E i \in SendIDs :
        /\ ReadToTheEnd(i) /\ stream[i].resp = NoBytes
        /\ Len(stream[i].req) = 1 /\ stream[i].closed

\* C15: a SendMessage call whose stream could not be opened has returned an
\* error and no message after one call of NewStream, and nothing was written
\* to the peer for it; no call opens more than once.
OpenFailureIsReturnedOnce ==
    \A i \in SendIDs :
        /\ send[i].opens <= 1
        /\ (send[i].pc = "done" /\ stream[i].state = "none")
           => /\ send[i].err # NoError
              /\ send[i].resp = NilMessage
              /\ send[i].opens = 1
              /\ stream[i].req = <<>>

\* the open failed for one call while another call to the same peer got through
OpenFailedForOneCall ==
    \E i, j \in SendIDs :
        /\ send[i].pc = "done" /\ stream[i].state = "none" /\ send[i].err = OpenError
        /\ send[j].pid = send[i].pid /\ CopiesAt(send[i].pid) = {j}

\* C16: a SendMessage call that read bytes which do not decode has returned an
\* error and no message.
UndecodableReplyIsAnError ==
    \A i \in SendIDs :
        (/\ ReadToTheEnd(i)
         /\ stream[i].resp # NoBytes
         /\ Unmarshal(stream[i].resp).err # NoError)
        => (send[i].err # NoError /\ send[i].resp = NilMessage)

\* the peer answered with bytes that are not JSON; the call is over
PeerRepliedGarbage ==
    \E i \in SendIDs :
        /\ ReadToTheEnd(i) /\ stream[i].resp = Garbage
        /\ send[i].err = Error("failed to unmarshal response")

\* the request bytes of inbound stream s decode
Decodes(s) == Unmarshal(inbound[s].data).err = NoError
\* handleStream has taken a step on inbound stream s
Steps(s) == inbound'[s].pc # inbound[s].pc

\* C17: on every inbound stream the handler is called at most once, and it is
\* called when the request decodes and a handler is set, otherwise the stream
\* is closed empty without a call; when the call returns no message the
\* stream is closed with nothing written; when it returns a message, the
\* encoding of that message is written on this stream and then the stream is
\* closed; nothing is written to a closed stream.
HandlerRunsOncePerStream ==
    [][\A s \in StreamIDs :
          /\ inbound'[s].calls <= 1
          /\ (inbound[s].pc = "ReadAll" /\ Steps(s))
                => IF Decodes(s) /\ msgHandler = "set"
                   THEN inbound'[s].pc = "Handler" /\ ~inbound'[s].closed
                   ELSE /\ inbound'[s].closed
                        /\ inbound'[s].calls = 0
                        /\ inbound'[s].written = <<>>
          /\ (inbound[s].pc = "Handler" /\ Steps(s))
                => /\ inbound'[s].calls = 1
                   /\ IF inbound'[s].resp = NilMessage
                      THEN inbound'[s].closed /\ inbound'[s].written = <<>>
                      ELSE inbound'[s].pc = "Write" /\ ~inbound'[s].closed
          /\ (inbound[s].pc = "Write" /\ Steps(s))
                => /\ inbound'[s].written = <<Marshal(inbound[s].resp)>>
                   /\ inbound'[s].closed
                   /\ inbound'[s].calls = 1
          /\ inbound[s].closed
                => (inbound'[s].written = inbound[s].written /\ inbound'[s].closed)]_vars

\* the one call of the handler returned a pong, which the peer has received
ReplyWrittenThenClosed ==
    \E s \in StreamIDs :
        /\ inbound[s].pc = "received"
        /\ inbound[s].calls = 1
        /\ inbound[s].resp = PongMessage
        /\ inbound[s].written = <<Marshal(PongMessage)>>
        /\ inbound[s].got.msg.Type = MessageTypePong

\* C18: a request of a type no constant defines decodes; the handler call for
\* it returns no message and no error and changes neither the name table, the
\* peer table nor the agent records; the stream is closed with nothing
\* written, and the peer reads no reply.
UnknownTypeIsIgnored ==
    [][\A s \in StreamIDs :
          /\ (inbound[s].sent # NilMessage /\ inbound[s].sent.Type = UnknownType)
                => /\ Decodes(s)
                   /\ Unmarshal(inbound[s].data).msg.Type = UnknownType
          /\ (inbound[s].pc = "Handler" /\ Steps(s)
                /\ inbound[s].msg.Type \notin DefinedTypes)
                => /\ inbound'[s].resp = NilMessage /\ inbound'[s].err = NoError
                   /\ agentNames' = agentNames /\ agentRegistry' = agentRegistry
                   /\ peers' = peers /\ heap' = heap
                   /\ inbound'[s].closed /\ inbound'[s].written = <<>>
          /\ (inbound[s].pc = "closed" /\ Steps(s)
                /\ inbound[s].calls = 1 /\ inbound[s].msg.Type \notin DefinedTypes)
                => inbound'[s].got = [err |-> NoError, msg |-> NilMessage]]_vars

\* a request of unknown type was dispatched and the peer read no reply,
\* while the tables hold a claim
UnknownTypeWasDispatched ==
    \E s \in StreamIDs :
        /\ inbound[s].pc = "received"
        /\ inbound[s].msg.Type = UnknownType
        /\ inbound[s].calls = 1
        /\ inbound[s].got.msg = NilMessage
        /\ agentNames # <<>>

\* C19: the message decoded from the encoding of a message m equals m in every
\* field: the request handleStream decodes equals the message the peer sent,
\* and the reply the peer decodes equals the message the handler returned.
RoundTripIsIdentity ==
    \A s \in StreamIDs :
        /\ (inbound[s].pc \in {"Handler", "Write"} /\ inbound[s].sent # NilMessage)
              => inbound[s].msg = inbound[s].sent
        /\ (inbound[s].pc = "received" /\ inbound[s].written # <<>>)
              => (inbound[s].got.err = NoError /\ inbound[s].got.msg = inbound[s].resp)

\* C20: a complete reply is only ever built for a chat request and carries the
\* request id of that request; it is written on the stream of the request,
\* where the peer that sent the request reads it.
CompleteEchoesRequestID ==
    \A s \in StreamIDs :
        (inbound[s].resp # NilMessage /\ inbound[s].resp.Type = MessageTypeComplete)
        => /\ inbound[s].msg.Type = MessageTypeChat
           /\ inbound[s].resp.RequestID = inbound[s].msg.RequestID
           /\ inbound[s].sent # NilMessage
                 => inbound[s].resp.RequestID = inbound[s].sent.RequestID
           /\ inbound[s].closed => inbound[s].written = <<Marshal(inbound[s].resp)>>
           /\ inbound[s].pc = "received"
                 => /\ inbound[s].got.msg.Type = MessageTypeComplete
                    /\ inbound[s].got.msg.RequestID = inbound[s].msg.RequestID

\* the peer has read the complete reply to its chat request, with its id
CompleteReplyReceived ==
    \E s \in StreamIDs :
        /\ inbound[s].pc = "received"
        /\ inbound[s].sent.Type = MessageTypeChat
        /\ inbound[s].got.msg.Type = MessageTypeComplete
        /\ inbound[s].got.msg.RequestID = inbound[s].sent.RequestID
        /\ inbound[s].sent.RequestID \in RequestIDs

\* the handler call on inbound stream s returned an error
Failed(s) == inbound[s].calls = 1 /\ inbound[s].err # NoError

\* C21: the peer whose request the handler could not honor (a chat request
\* whose payload is no request, or whose forwarding failed) reads an error
\* reply on the stream of the request.
FailedRequestGetsErrorReply ==
    \A s \in StreamIDs :
        (inbound[s].pc = "received" /\ Failed(s))
        => /\ inbound[s].got.err = NoError
           /\ inbound[s].got.msg.Type = MessageTypeError

\* the handler call on inbound stream s is for a register message whose
\* payload decodes
IsRegister(s) ==
    inbound[s].msg.Type = MessageTypeRegister /\ ~PayloadError(inbound[s].msg.Payload)
\* the name that message advertises
Advertised(s) == UnmarshalRegisterPayload(inbound[s].msg.Payload).AgentName

\* C22: the agent records change only in the handler call for a register
\* message that the name arbiter accepts: that call answers pong and stores the
\* record of the sending peer, with the advertised name, over whatever record
\* the peer had; a register message that meets a name conflict is answered with
\* an error reply, which the peer reads, and every record stays as it was.
RecordFollowsAcceptedRegistration ==
    [][/\ \A s \in StreamIDs :
             (inbound[s].pc = "Handler" /\ Steps(s))
             => IF IsRegister(s) /\ ~OwnedByOther(Advertised(s), inbound[s].from)
                THEN /\ inbound'[s].resp.Type = MessageTypePong
                     /\ DOMAIN agentRegistry' = DOMAIN agentRegistry \cup {inbound[s].from}
                     /\ agentRegistry'[inbound[s].from].PeerID = inbound[s].from
                     /\ agentRegistry'[inbound[s].from].Name = Advertised(s)
                     /\ \A p \in DOMAIN agentRegistry \ {inbound[s].from} :
                           agentRegistry'[p] = agentRegistry[p]
                ELSE /\ agentRegistry' = agentRegistry
                     /\ inbound'[s].resp # NilMessage
                           => inbound'[s].resp.Type # MessageTypePong \/ ~IsRegister(s)
                     /\ IsRegister(s)
                           => /\ inbound'[s].resp.Type = MessageTypeError
                              /\ inbound'[s].pc = "Write"
       /\ (\A s \in StreamIDs : ~(inbound[s].pc = "Handler" /\ Steps(s)))
             => agentRegistry' = agentRegistry
       /\ \A s \in StreamIDs :
             (inbound[s].pc = "closed" /\ Steps(s) /\ inbound[s].resp # NilMessage
                /\ IsRegister(s) /\ inbound[s].err = NoError)
             => inbound'[s].got.msg.Type = inbound[s].resp.Type]_vars

\* a peer asked for the name another peer is recorded under and has read the
\* error reply; it has no record
RegisterRejectedWithErrorReply ==
    \E s \in StreamIDs :
        /\ inbound[s].pc = "received"
        /\ inbound[s].sent.Type = MessageTypeRegister
        /\ inbound[s].got.msg.Type = MessageTypeError
        /\ inbound[s].from \notin DOMAIN agentRegistry
        /\ \E p \in DOMAIN agentRegistry : agentRegistry[p].Name = Advertised(s)

\* C23: a register message of a remote peer that advertises the configured
\* name of the node itself is refused as a duplicate: it is answered with an
\* error reply and the peer is not recorded under that name.
LocalNameIsRefused ==
    \A s \in StreamIDs :
        (inbound[s].calls = 1 /\ IsRegister(s) /\ Advertised(s) = LocalName)
        => /\ inbound[s].resp.Type = MessageTypeError
           /\ ~(/\ inbound[s].from \in DOMAIN agentRegistry
                /\ agentRegistry[inbound[s].from].Name = LocalName)
           /\ ~(LocalName \in DOMAIN agentNames /\ agentNames[LocalName] = inbound[s].from)

\* ------------------------------------------------ properties of the HTTP API
\* the request handlers that have run for the request
RanHandlers == {http.ran[k] : k \in DOMAIN http.ran} \cap RequestHandlers
\* the response of the server has been written
IsAnswered == http.pc \in {"answered", "returned"}
\* the Authorization header holds the configured key, after "Bearer " or bare
CarriesKey(auth) == auth \in {<<"Bearer", APIKey>>, <<APIKey>>}

\* C24: a POST /v1/announce that carries the configured API key is answered
\* 200 after a request handler ran that broadcast an announce message, and
\* the announce command that sent it returns without an error.
AnnounceIsBroadcast ==
    (/\ IsAnswered
     /\ http.method = "POST" /\ http.path = "/v1/announce"
     /\ CarriesKey(http.auth))
    => /\ http.status = StatusOK
       /\ RanHandlers # {}
       /\ bcast.pc # "idle" /\ bcast.msg.Type = MessageTypeAnnounce
       /\ (http.by = "runAnnounce" /\ http.pc = "returned") => http.err = ""

\* C25: a request handler of a route under /v1 has run only for a request
\* whose Authorization header carries the configured API key; a request to
\* such a route with no header or another key is answered 401 and no request
\* handler runs for it; GET /health is answered 200 by its handler whatever
\* the header.
ApiKeyGuardsV1Routes ==
    /\ (http.path # "/health" /\ RanHandlers # {}) => CarriesKey(http.auth)
    /\ (/\ IsAnswered
        /\ http.path # "/health"
        /\ <<http.method, http.path>> \in DOMAIN Routes
        /\ ~CarriesKey(http.auth))
       => (http.status = StatusUnauthorized /\ RanHandlers = {})
    /\ (IsAnswered /\ http.method = "GET" /\ http.path = "/health")
       => (http.status = StatusOK /\ RanHandlers = {"healthCheck"})
    /\ (http.pc = "chain" /\ http.chain # <<>> /\ Head(http.chain) \in RequestHandlers
          /\ http.path # "/health")
       => CarriesKey(http.auth)

\* a request for the agent list with another key was answered 401
WrongKeyTurnedAway ==
    /\ http.pc = "answered"
    /\ http.method = "GET" /\ http.path = "/v1/agents"
    /\ http.auth = <<"Bearer", OtherKey>>
    /\ http.status = StatusUnauthorized
    /\ http.ran = <<"authMiddleware">>

\* ---------------------------------------- properties of messaging, continued
\* C26: a SendMessage call takes its steps in the order open, write,
\* half-close, read: the stream it opens is a fresh one; the one write puts
\* the whole encoding of the message on the stream, before the half-close, and
\* nothing is written after it; the read starts after the half-close and
\* ends when the peer has closed the stream or the stream has failed; and
\* when the call returns, on whatever path, a stream it opened is closed.
SendMessageStepsInOrder ==
    [][\A i \in SendIDs :
          /\ (stream[i].state = "none" /\ stream'[i].state # "none")
                => /\ send[i].pc = "NewStream" /\ send'[i].pc = "Write"
                   /\ stream'[i] = [NoStream EXCEPT !.state = "open"]
          /\ stream'[i].req # stream[i].req
                => /\ send[i].pc = "Write" /\ send'[i].pc = "CloseWrite"
                   /\ stream[i].req = <<>> /\ ~stream[i].wclosed /\ ~stream[i].closed
                   /\ stream'[i].req = <<Marshal(send[i].msg)>>
          /\ (~stream[i].wclosed /\ stream'[i].wclosed)
                => /\ send[i].pc = "CloseWrite" /\ send'[i].pc = "Read"
                   /\ Len(stream[i].req) = 1
          /\ (send[i].pc # "Read" /\ send'[i].pc = "Read")
                => /\ send[i].pc = "CloseWrite"
                   /\ stream'[i].wclosed \/ stream'[i].state = "reset"
          /\ (send[i].pc = "Read" /\ send'[i].pc # "Read")
                => /\ send'[i].pc = "done"
                   /\ stream[i].eof \/ stream[i].state = "reset"
          /\ (send[i].pc # "done" /\ send'[i].pc = "done")
                => /\ stream'[i].state # "none" => stream'[i].closed
                   /\ stream'[i].state = "none" => send[i].pc = "NewStream"
                   /\ send'[i].err # NoError
                         => send[i].pc \in {"NewStream", "Write", "Read"}
          /\ (~stream[i].closed /\ stream'[i].closed) => send'[i].pc = "done"
          /\ stream[i].closed => stream'[i] = stream[i]
          /\ send[i].pc = "done" => send'[i] = send[i]]_vars

\* every error return after the open has happened, each with its stream
\* closed: here a call whose write failed and one whose read failed
ErrorReturnsCloseTheStream ==
    \E i, j \in SendIDs :
        /\ send[i].pc = "done" /\ send[i].err = Error("failed to write message")
        /\ stream[i].closed /\ stream[i].req = <<>>
        /\ send[j].pc = "done" /\ send[j].err = Error("failed to read response")
        /\ stream[j].closed /\ Len(stream[j].req) = 1

\* C27: on an inbound stream nothing is written before the request has been
\* read to the end of the stream and the handler has returned: the handler is
\* called, and the one write happens, only after the peer has half-closed,
\* the write follows the return of the handler with a message, and what was
\* decoded is the whole of what the peer wrote.
ResponseFollowsRequestRead ==
    [][\A s \in StreamIDs :
          /\ inbound'[s].written # inbound[s].written
                => /\ inbound[s].pc = "Write"
                   /\ inbound[s].wclosed
                   /\ inbound[s].calls = 1
                   /\ inbound[s].resp # NilMessage
                   /\ inbound[s].written = <<>>
                   /\ inbound[s].msg = Unmarshal(inbound[s].data).msg
          /\ inbound'[s].calls # inbound[s].calls
                => (inbound[s].wclosed /\ inbound[s].written = <<>>)
          /\ (inbound[s].pc = "ReadAll" /\ Steps(s)) => inbound[s].wclosed
          /\ inbound'[s].data # inbound[s].data => inbound[s].pc = "idle"]_vars

\* the reply to a chat request is on the stream; the peer had half-closed
\* before the handler ran
ReplyWrittenAfterRead ==
    \E s \in StreamIDs :
        /\ inbound[s].pc = "closed"
        /\ inbound[s].wclosed
        /\ inbound[s].msg.Type = MessageTypeChat
        /\ inbound[s].written = <<Marshal(CompleteMessage(inbound[s].msg))>>

\* the bytes on inbound stream s are no envelope: not JSON, or JSON that is
\* neither an object nor null
Undecodable(s) == inbound[s].data \in {NoBytes, Garbage, Text(JArray)}

\* C28: an inbound stream whose bytes are no envelope is dropped: the step in
\* which handleStream finds that out closes the stream and changes no table,
\* and on such a stream the handler is never called, nothing is ever written,
\* and the peer reads no reply.
MalformedStreamIsDropped ==
    [][\A s \in StreamIDs :
          Undecodable(s)
          => /\ (inbound[s].pc = "ReadAll" /\ Steps(s))
                   => /\ inbound'[s].closed /\ inbound'[s].pc = "closed"
                      /\ inbound'[s].err # NoError
                      /\ agentNames' = agentNames /\ agentRegistry' = agentRegistry
                      /\ peers' = peers /\ heap' = heap
             /\ inbound'[s].calls = 0
             /\ inbound'[s].written = <<>>
             /\ inbound'[s].resp = NilMessage
             /\ inbound'[s].pc \notin {"Handler", "Write"}
             /\ inbound'[s].pc = "received"
                   => inbound'[s].got = [err |-> NoError, msg |-> NilMessage]]_vars

\* a stream of bytes that are not JSON was closed while a handler is set and
\* the tables hold a claim; the peer has read nothing
GarbageStreamWasDropped ==
    \E s \in StreamIDs :
        /\ inbound[s].pc = "received"
        /\ inbound[s].data = Garbage
        /\ msgHandler = "set"
        /\ inbound[s].closed
        /\ agentNames # <<>>

\* ------------------------------------------------- properties of the locking
\* task t holds the registry lock, for writing or for reading
HoldsLock(t) == peersMu.writer = t \/ t \in peersMu.readers
\* the next step of task t assigns a.agentRegistry[from.String()]
WritesRegistry(t) == pc[t] = "handleRegister_Record"
\* the next step of task t reads a.agentRegistry and the PeerInfo behind a
\* pointer that GetPeers returned
ReadsRegistry(t) == pc[t] = "HandleListAgents_Loop" /\ frame[t].ptrs # {}

\* C29: no two tasks are at an access of the same shared table at once, one
\* of them writing, unless they hold the registry lock: the agent records
\* are written by register handling and read by the agent listing under it.
SharedStateIsLocked ==
    \A t1, t2 \in Tasks :
        (t1 # t2 /\ WritesRegistry(t1) /\ (WritesRegistry(t2) \/ ReadsRegistry(t2)))
        => (HoldsLock(t1) /\ HoldsLock(t2))

\* task t is a notification waiting in Lock()
WaitsForLock(t) == pc[t] \in {"onPeerConnected_Lock", "onPeerDisconnected_Lock"}

\* C30: the registry lock is held only inside the in-memory critical sections:
\* a task that holds it is at the one step that ends with its release, that
\* step can always be taken at once, and a Broadcast has released the read
\* lock when it dispatches its sends; so whenever some task has started, some
\* task can take a step, and a connect or disconnect notification that waits
\* for the lock is eventually applied.
LockHeldOnlyInMemory ==
    /\ [](\A t \in Tasks :
             /\ peersMu.writer = t => pc[t] = "RegisterAgentName_Set"
             /\ t \in peersMu.readers
                   => pc[t] \in {"IsNameTaken_Read", "GetPeers_Copy", "Broadcast_Snapshot"}
             /\ HoldsLock(t) => ENABLED Step(t)
             /\ (pc[t] # "idle" /\ ~WaitsForLock(t)) => ENABLED Step(t))
    /\ []((peersMu.writer # NoTask => peersMu.readers = {})
            /\ ((\E t \in Tasks : pc[t] # "idle") => \E t \in Tasks : ENABLED Step(t)))
    /\ \A t \in Tasks : WaitsForLock(t) ~> (pc[t] = "idle")

\* a disconnect notification for a peer waits for the lock while a Broadcast
\* that has that peer in its snapshot is dispatching, the lock being free
NotificationDuringDispatch ==
    \E t1, t2 \in Tasks :
        /\ pc[t1] = "onPeerDisconnected_Lock"
        /\ pc[t2] = "Broadcast_Dispatch"
        /\ frame[t1].peer \in frame[t2].snap
        /\ CanLock

\* the identities whose text form begins with the characters shown
ShownAs(shown) ==
    {q \in PeerIDs \cup {LocalID} : SubSeq(PeerString(q), 1, DisplayLen) = shown}

\* C31: the name-taken error of RegisterAgentName lets the caller recover the
\* owner's full identity: the error carries the owner's whole text form, or at
\* least the characters it carries belong to the owner and to no other
\* identity.
ConflictCarriesFullOwner ==
    \A t \in Tasks :
        (pc[t] = "handleRegister_Reject" /\ frame[t].err.kind = "name_taken")
        => \/ frame[t].err.peer = PeerString(agentNames[frame[t].name])
           \/ ShownAs(frame[t].err.peer) = {agentNames[frame[t].name]}

\* task t is inside handleRegister: between the check of RegisterAgentName
\* and the return of the handler
InHandleRegister(t) ==
    pc[t] \in {"RegisterAgentName_Set", "handleRegister_Reject", "handleRegister_Record"}

\* C34: whenever no register handling is in progress, every AgentRecord in the
\* registry, stored for peer P with name n, has its name claimed by P in the
\* name table.
RecordsBackedByNameTable ==
    (\A t \in Tasks : ~InHandleRegister(t))
    => \A p \in DOMAIN agentRegistry :
          /\ agentRegistry[p].PeerID = p
          /\ agentRegistry[p].Name \in DOMAIN agentNames
          /\ agentNames[agentRegistry[p].Name] = p

\* no register handling is in progress, and a peer that claimed one name and
\* then another has the record of the later one
RecordOfSecondNameAtRest ==
    /\ \A t \in Tasks : ~InHandleRegister(t)
    /\ \E p \in DOMAIN agentRegistry :
          \E n \in DOMAIN agentNames :
             agentNames[n] = p /\ n # agentRegistry[p].Name

\* the send of goroutine i has returned a peer's error reply
GotErrorReply(i) ==
    /\ send[i].pc = "done"
    /\ send[i].err = NoError
    /\ send[i].resp.Type = MessageTypeError

\* C35: a reply to a broadcast message is discarded.  The step in which a send
\* of the register broadcast returns a peer's error reply changes nothing but
\* that send and its stream; no step of the broadcast or of its sends changes
\* the registry, the name the node registers under or the handler; and the
\* Broadcast returns nil whatever its peers have answered.
BroadcastReplyIsDiscarded ==
    /\ [][/\ <<peers, heap, agentNames, agentRegistry, msgHandler>>'
               = <<peers, heap, agentNames, agentRegistry, msgHandler>>
          /\ bcast.pc # "idle" => bcast'.msg = bcast.msg
          /\ \A i \in SendIDs :
                (send[i].pc = "Read" /\ GotErrorReply(i)')
                => /\ bcast' = bcast
                   /\ \A j \in SendIDs \ {i} : send'[j] = send[j] /\ stream'[j] = stream[j]]_vars
    /\ [](/\ bcast.pc # "idle" => bcast.msg = RegisterMessage(LocalID, LocalName)
          /\ bcast.err = NoError)

\* the Broadcast has returned nil and one of its sends has returned the error
\* reply by which a peer refused the name
ConflictReplyAfterBroadcast ==
    /\ bcast.pc = "returned"
    /\ bcast.err = NoError
    /\ \E i \in BroadcastSends :
          /\ GotErrorReply(i)
          /\ send[i].msg = RegisterMessage(LocalID, LocalName)
          /\ send[i].resp.From = send[i].pid

\* goroutine i has written the register message on a stream to peer p
RegisterWrittenTo(i, p) ==
    /\ send[i].pid = p
    /\ send[i].msg.Type = MessageTypeRegister
    /\ stream[i].req # <<>>

\* C32: the register message is broadcast once, by Start, to the peers that
\* are connected when Broadcast takes its snapshot: the snapshot is the set of
\* peers connected at that moment and is taken once; every SendMessage call
\* carries the register message of that broadcast to a peer of the snapshot,
\* one call per peer; a connect notification starts no send, so a peer that
\* connects after the snapshot is never sent the register message.
RegisterBroadcastOnlyAtStart ==
    /\ [][/\ (bcast.pc = "idle" /\ bcast'.pc # "idle")
                => /\ bcast'.snap = {p \in PeerIDs : IsConnected(p)}
                   /\ bcast'.msg = RegisterMessage(LocalID, LocalName)
          /\ bcast.pc # "idle" => (bcast'.pc # "idle" /\ bcast'.snap = bcast.snap)
          /\ \A i \in SendIDs :
                (send[i].pc = "idle" /\ send'[i].pc # "idle")
                => /\ bcast.pc = "Dispatch"
                   /\ conns' = conns /\ peers' = peers /\ heap' = heap
          /\ \A p \in PeerIDs :
                conns'[p] > conns[p] => (send' = send /\ stream' = stream /\ bcast' = bcast)]_vars
    /\ [](/\ \A i \in SendIDs :
                send[i].pc # "idle"
                => /\ send[i].msg = bcast.msg
                   /\ send[i].pid \in bcast.snap
                   /\ \A j \in SendIDs : (j # i /\ send[j].pc # "idle") => send[j].pid # send[i].pid
          /\ \A p \in PeerIDs :
                (bcast.pc # "idle" /\ p \notin bcast.snap)
                => \A i \in SendIDs : ~RegisterWrittenTo(i, p))

\* Start has returned: the broadcast is over and its message is written to a
\* peer of the snapshot, and a peer that connected afterwards, still
\* connected, has been sent nothing
LatePeerGotNoRegister ==
    /\ bcast.pc = "returned"
    /\ \A i \in SendIDs : send[i].pc \notin {"NewStream", "Write"}
    /\ \E q \in bcast.snap : \E i \in SendIDs : RegisterWrittenTo(i, q)
    /\ \E p \in PeerIDs :
          /\ p \notin bcast.snap
          /\ IsConnected(p)
          /\ conns[p] > 0
          /\ \A i \in SendIDs : send[i].pid # p

\* C33: the connected flag of a peer follows the notifications, one at a
\* time, and not the number of open connections: the notification of a closed
\* connection leaves the peer known and marked disconnected even while other
\* connections to it are open, the notification of an opened connection
\* leaves it marked connected, no other step changes a flag, and the snapshot
\* of a Broadcast holds exactly the peers marked connected when it is taken.
FlagFollowsLastNotification ==
    [][/\ \A p \in PeerIDs :
             /\ conns'[p] < conns[p]
                   => /\ p \in DOMAIN peers => IsDisconnected(p)'
                      /\ DOMAIN peers' = DOMAIN peers
             /\ conns'[p] > conns[p] => IsConnected(p)'
             /\ conns'[p] = conns[p]
                   => /\ IsConnected(p)' = IsConnected(p)
                      /\ IsDisconnected(p)' = IsDisconnected(p)
       /\ (bcast.pc = "idle" /\ bcast'.pc # "idle")
             => \A p \in PeerIDs :
                   /\ IsDisconnected(p) => p \notin bcast'.snap
                   /\ IsConnected(p) => p \in bcast'.snap]_vars

\* a peer with a connection still open is marked disconnected and is outside
\* the snapshot of the broadcast, which went to another peer
OpenConnectionButLeftOut ==
    \E p \in PeerIDs :
        /\ conns[p] >= 1
        /\ IsDisconnected(p)
        /\ bcast.pc # "idle"
        /\ p \notin bcast.snap
        /\ bcast.snap # {}
        /\ \A i \in SendIDs : send[i].pid # p
====
